---- MODULE Spec2Model ----
(***************************************************************************)
(* Model of axon's tool-calling conversation loop:                         *)
(*   - the streaming assembler chatCompletionStream (pkg/llm/streaming.go) *)
(*   - the conversation loops ChatWithToolsStream and ChatWithTools        *)
(*   - the interactive session that owns the history (Session.Start)       *)
(* Text (content, argument JSON) is a sequence of tokens; ids, names and   *)
(* finish reasons are strings, "" being Go's zero value.                   *)
(***************************************************************************)
EXTENDS Integers, Sequences, FiniteSets, TLC

\* ------------------------------------------------------------------ bounds
\* events read from one stream (SpecStream)
MaxEvents == 3
\* largest index of the logical call (SpecOneCall)
MaxIndex == 1
\* fragments fed in the one-call scenario (SpecOneCall)
MaxFrags == 3
\* model calls in one session (Spec)
MaxCalls == 12
\* rounds of a session whose reply is not the plain single-tool-call reply
MaxVaried == 1
\* characters of a path given to ResolvePath (SpecPath)
MaxPathLen == 5
\* choices in a chat-completion response (SpecChat)
MaxChoices == 2
\* polls of the health endpoint before waitForReady times out (SpecServer)
MaxTicks == 5
\* characters of the file given to ReadFileRange (SpecRange)
MaxFileLen == 3

\* ------------------------------------------------------- program constants
maxIterations == 10

VARIABLES
    \* chatCompletionStream's locals
    fullResponse, toolCalls, finishReason,
    \* the stream being read: "reading" or "returned", events seen, result
    sstate, nEvents, ret,
    \* observation: latest non-empty finish_reason seen on a delta
    latestFinish,
    \* observation: the arguments the callback was invoked with, in order, and
    \* the non-empty content deltas read, in order
    cbLog, textLog,
    \* observation: the fragments fed so far, and the logical call they belong to
    fragLog, call,
    \* the conversation loop and the session
    variant, pc, s_messages, originalCount, messages, iteration,
    roundCalls, ti, result, execLog, lastSent, calls, varied, histBefore,
    turnCalls, reply, lastStream, execResults,
    \* fsctx.ResolvePath on one input: the path, "input" or "resolved", the result
    rp_path, rp_pc, rp_ret,
    \* one call of a mutating tool: the call, the line waiting on standard input,
    \* the disk before the call and now, what the tool returned, "called"/"returned"
    t_call, t_stdin, t_before, t_disk, t_ret, t_pc,
    \* Client.Chat on one HTTP exchange: the exchange, "called"/"returned", the result
    c_http, c_pc, c_ret,
    \* the model server: an external one responding, the process axon spawned,
    \* Server.cmd, main's srv, main's position, whether a probe made before any
    \* spawn found a server, the signals sent, waitForReady's polls, the
    \* processes spawned, cfg.Server.AutoStart
    srv_ext, srv_own, srv_cmd, srv_set, srv_pc, srv_found, srv_signals, srv_ticks,
    srv_spawned, srv_auto,
    \* one call of a function of package project or fsctx: its arguments with
    \* the environment and the disk it runs on, its locals, "called"/"loop"/
    \* "returned", and what it returned
    fn_call, fn_local, fn_pc, fn_ret

streamVars == <<fullResponse, toolCalls, finishReason, sstate, nEvents, ret, latestFinish,
                textLog>>
scenVars == <<fragLog, call>>
loopVars == <<variant, pc, s_messages, originalCount, messages, iteration,
              roundCalls, ti, result, execLog, lastSent, calls, varied, histBefore,
              turnCalls, reply, lastStream, execResults>>
pathVars == <<rp_path, rp_pc, rp_ret>>
toolVars == <<t_call, t_stdin, t_before, t_disk, t_ret, t_pc>>
chatVars == <<c_http, c_pc, c_ret>>
srvVars == <<srv_ext, srv_own, srv_cmd, srv_set, srv_pc, srv_found, srv_signals, srv_ticks,
             srv_spawned, srv_auto>>
fnVars == <<fn_call, fn_local, fn_pc, fn_ret>>
extVars == <<pathVars, toolVars, chatVars, srvVars, fnVars>>
vars == <<streamVars, cbLog, scenVars, loopVars, extVars>>

\* ------------------------------------------------------------- tool calls
\* llm.ToolCall, with Function.Name and Function.Arguments flattened
ToolCall(index, id, type, name, arguments) ==
    [Index |-> index, ID |-> id, Type |-> type, Name |-> name, Arguments |-> arguments]

\* ToolCall{Index: i}: the placeholder the list is grown with
EmptyToolCall(i) == ToolCall(i, "", "", "", <<>>)

\* A fragment as it is on the wire: the index field may be absent.
WireFragment(hasIndex, index, id, type, name, args) ==
    [hasIndex |-> hasIndex, index |-> index, id |-> id, type |-> type,
     name |-> name, args |-> args]

\* json.Unmarshal into ToolCall: an absent "index" decodes as the int zero value
DecodeFragment(f) ==
    ToolCall(IF f.hasIndex THEN f.index ELSE 0, f.id, f.type, f.name, f.args)

\* mutant: a call counts as complete once it has an id
Complete_IDOnly(tc) == tc.ID # ""

\* a call the loops may dispatch: both id and name present
Complete(tc) == tc.ID # "" /\ tc.Name # ""

\* position (1-based) of the entry a fragment is merged into, 0 when none
FindByID(tcs, id) ==
    IF id # "" /\ \E i \in 1..Len(tcs) : tcs[i].ID = id
    THEN CHOOSE i \in 1..Len(tcs) :
            /\ tcs[i].ID = id
            /\ \A j \in 1..(i-1) : tcs[j].ID # id
    ELSE 0

\* mutant: the id is tried before the index
FindExisting_IDFirst(tcs, d) ==
    IF FindByID(tcs, d.ID) # 0 THEN FindByID(tcs, d.ID)
    ELSE IF d.Index >= 0 /\ d.Index < Len(tcs) /\ tcs[d.Index + 1].Index = d.Index
         THEN d.Index + 1
         ELSE 0

FindExisting(tcs, d) ==
    IF d.Index >= 0 /\ d.Index < Len(tcs) /\ tcs[d.Index + 1].Index = d.Index
    THEN d.Index + 1
    ELSE FindByID(tcs, d.ID)

\* mutant: the new text is put in front of the buffer
MergeArguments_Prepend(old, new) == new \o old

\* the merge of a fragment into the entry found for it
MergeArguments(old, new) == old \o new

\* mutant: the fragment's arguments replace the buffer
MergeInto_Overwrite(e, d) ==
    ToolCall(e.Index,
             IF d.ID # "" /\ e.ID = "" THEN d.ID ELSE e.ID,
             IF d.Type # "" /\ e.Type = "" THEN d.Type ELSE e.Type,
             IF d.Name # "" /\ e.Name = "" THEN d.Name ELSE e.Name,
             d.Arguments)

MergeInto(e, d) ==
    ToolCall(e.Index,
             IF d.ID # "" /\ e.ID = "" THEN d.ID ELSE e.ID,
             IF d.Type # "" /\ e.Type = "" THEN d.Type ELSE e.Type,
             IF d.Name # "" /\ e.Name = "" THEN d.Name ELSE e.Name,
             MergeArguments(e.Arguments, d.Arguments))

\* the index a new call is placed at
NewIndex(tcs, d) == IF d.Index < 0 THEN Len(tcs) ELSE d.Index

\* for len(toolCalls) <= idx { append(ToolCall{Index: len(toolCalls)}) }
GrowTo(tcs, idx) ==
    IF Len(tcs) > idx THEN tcs
    ELSE tcs \o [i \in 1..(idx + 1 - Len(tcs)) |-> EmptyToolCall(Len(tcs) + i - 1)]

PlaceNew(tcs, d) ==
    LET idx == NewIndex(tcs, d)
    IN  [GrowTo(tcs, idx) EXCEPT ![idx + 1] = [d EXCEPT !.Index = idx]]

\* one fragment of delta.tool_calls
MergeFragment(tcs, d) ==
    LET p == FindExisting(tcs, d)
    IN  IF p # 0 THEN [tcs EXCEPT ![p] = MergeInto(tcs[p], d)]
        ELSE PlaceNew(tcs, d)

RECURSIVE MergeFragments(_, _)
MergeFragments(tcs, ds) ==
    IF ds = <<>> THEN tcs
    ELSE MergeFragments(MergeFragment(tcs, DecodeFragment(Head(ds))), Tail(ds))

\* mutant: the filter checks the id only
HasID(tc) == tc.ID # ""
FilterComplete_IDOnly(tcs) == SelectSeq(tcs, HasID)

\* the completeness filter (in the loop and again before returning)
FilterComplete(tcs) == SelectSeq(tcs, Complete)

\* ------------------------------------------------- chatCompletionStream
\* finishReason = choice.FinishReason, assigned on every delta with a choice
TrackFinish(old, new) == new

\* the function's locals while the stream is read; err # "" once it has returned
\* callbacks: the arguments of the callback invocations made so far
StreamState(text, tcs, fr, err) ==
    [fullResponse |-> text, toolCalls |-> tcs, finishReason |-> fr, err |-> err,
     callbacks |-> <<>>]

StreamStart == StreamState(<<>>, <<>>, "", "")

\* A data event that parsed and has a choice.  cbOk: the callback returns nil.
DeltaEvent(content, frags, finish, cbOk) ==
    [kind |-> "delta", content |-> content, frags |-> frags, finish |-> finish,
     cbOk |-> cbOk]

\* An event the loop skips: not a data line, malformed JSON, or no choices
SkipEvent == [kind |-> "skip", content |-> <<>>, frags |-> <<>>, finish |-> "",
              cbOk |-> TRUE]

\* mutant: the callback is given the whole buffer
Callback_Cumulative(buffer, content) == IF content # <<>> THEN <<buffer>> ELSE <<>>

\* if choice.Delta.Content != "" { ...; callback(choice.Delta.Content) }: the
\* invocations made for one delta (buffer is the text accumulated, delta included)
Callback(buffer, content) == IF content # <<>> THEN <<content>> ELSE <<>>

\* mutant: a failure of the callback is not looked at
ProcessChoice_CallbackIgnored(st, ev) ==
    LET fr     == TrackFinish(st.finishReason, ev.finish)
        text   == st.fullResponse \o ev.content
        cbs    == st.callbacks \o Callback(text, ev.content)
        merged == MergeFragments(st.toolCalls, ev.frags)
    IN  [StreamState(text,
                     IF fr = "tool_calls" THEN FilterComplete(merged) ELSE merged,
                     fr, "")
         EXCEPT !.callbacks = cbs]

\* the body of the scanner loop for one delta
ProcessChoice(st, ev) ==
    LET fr   == TrackFinish(st.finishReason, ev.finish)
        text == st.fullResponse \o ev.content
        cbs  == st.callbacks \o Callback(text, ev.content)
    IN  IF ev.content # <<>> /\ ~ev.cbOk
        THEN [StreamState(text, st.toolCalls, fr, "callback") EXCEPT !.callbacks = cbs]
        ELSE LET merged == MergeFragments(st.toolCalls, ev.frags)
             IN  [StreamState(text,
                              IF fr = "tool_calls" THEN FilterComplete(merged) ELSE merged,
                              fr, "")
                  EXCEPT !.callbacks = cbs]

\* mutant: the finish reason is taken before the check for choices
ProcessEvent_SkipClearsFinish(st, ev) ==
    IF ev.kind = "skip" THEN [st EXCEPT !.finishReason = ""] ELSE ProcessChoice(st, ev)

ProcessEvent(st, ev) == IF ev.kind = "skip" THEN st ELSE ProcessChoice(st, ev)

\* what the function returns: (text, tool calls, error)
Returned(text, tcs, err) == [text |-> text, calls |-> tcs, err |-> err]

\* after the loop, scanner.Err() == nil
Finalize(st) ==
    IF st.finishReason = "tool_calls"
    THEN Returned(st.fullResponse, FilterComplete(st.toolCalls), "")
    ELSE Returned(st.fullResponse, <<>>, "")

\* return "", nil, err
Failed(err) == Returned(<<>>, <<>>, err)

\* ------------------------------------------------------ inputs of a stream
IDs == {"", "c1", "c2"}
Names == {"", "read_file"}
ArgChunks == {<<>>, <<"{">>}
\* explicit indexes: none (-1), the first and the second call
Indexes == {-1, 0, 1}
Contents == {<<>>, <<"a">>, <<"b">>}
FinishReasons == {"", "stop", "tool_calls"}

\* "type" travels with the name, as providers send it
TypeOf(name) == IF name = "" THEN "" ELSE "function"

\* fragments with an explicit index (an absent one reads as index 0)
WireFragments ==
    { WireFragment(TRUE, i, id, TypeOf(name), name, a) :
        i \in Indexes, id \in IDs, name \in Names, a \in ArgChunks }

\* a delta carries text, or one tool-call fragment, or neither; the second
\* text comes without a finish reason
StreamEvents ==
    { DeltaEvent(<<"a">>, <<>>, fr, ok) : fr \in FinishReasons, ok \in BOOLEAN }
    \cup
    { DeltaEvent(c, <<>>, "", TRUE) : c \in Contents \ {<<>>} }
    \cup
    { DeltaEvent(<<>>, fs, fr, TRUE) :
        fs \in {<<>>} \cup { <<f>> : f \in WireFragments }, fr \in FinishReasons }

\* ------------------------------------------- the stream, event by event
\* no model call made yet
NoStream == [status |-> "", events |-> <<>>, end |-> ""]

LoopIdle ==
    /\ variant = "none" /\ pc = "none" /\ s_messages = <<>> /\ originalCount = 0
    /\ messages = <<>> /\ iteration = 0 /\ roundCalls = <<>> /\ ti = 0
    /\ result = [text |-> <<>>, err |-> "", raw |-> <<>>]
    /\ execLog = <<>> /\ lastSent = <<>>
    /\ calls = 0 /\ varied = 0 /\ histBefore = <<>>
    /\ turnCalls = 0 /\ reply = Returned(<<>>, <<>>, "")
    /\ lastStream = NoStream /\ execResults = <<>>

StreamIdle ==
    /\ fullResponse = <<>> /\ toolCalls = <<>> /\ finishReason = ""
    /\ sstate = "none" /\ nEvents = 0 /\ ret = Returned(<<>>, <<>>, "")
    /\ latestFinish = "" /\ cbLog = <<>> /\ textLog = <<>>

ScenIdle == fragLog = <<>> /\ call = [id |-> "", index |-> 0]

\* the variables of the other components, while they are not modelled
PathIdle == rp_path = <<>> /\ rp_pc = "none" /\ rp_ret = [path |-> <<>>, err |-> ""]
ToolIdle ==
    /\ t_call = [name |-> "", path |-> <<>>, dest |-> <<>>, old |-> ""]
    /\ t_stdin = [ok |-> FALSE, text |-> <<>>]
    /\ t_before = <<>> /\ t_disk = <<>>
    /\ t_ret = [out |-> "", err |-> "", asked |-> FALSE]
    /\ t_pc = "none"
ChatIdle ==
    /\ c_http = [sent |-> FALSE, status |-> 0, json |-> FALSE, error |-> FALSE,
                 choices |-> <<>>]
    /\ c_pc = "none" /\ c_ret = [content |-> <<>>, err |-> ""]
SrvIdle ==
    /\ srv_ext = FALSE /\ srv_own = "none" /\ srv_cmd = "nil" /\ srv_set = FALSE
    /\ srv_pc = "none" /\ srv_found = FALSE /\ srv_signals = {} /\ srv_ticks = 0
    /\ srv_spawned = 0 /\ srv_auto = FALSE
FnIdle == fn_call = <<>> /\ fn_local = <<>> /\ fn_pc = "none" /\ fn_ret = <<>>
ExtIdle == PathIdle /\ ToolIdle /\ ChatIdle /\ SrvIdle /\ FnIdle

InitStream ==
    /\ fullResponse = <<>> /\ toolCalls = <<>> /\ finishReason = ""
    /\ sstate = "reading" /\ nEvents = 0 /\ ret = Returned(<<>>, <<>>, "")
    /\ latestFinish = "" /\ cbLog = <<>> /\ textLog = <<>>
    /\ ScenIdle /\ LoopIdle /\ ExtIdle

\* one delta is read and processed
ReadDelta(ev) ==
    /\ sstate = "reading"
    /\ LET st == ProcessChoice(StreamState(fullResponse, toolCalls, finishReason, ""), ev)
       IN  /\ fullResponse' = st.fullResponse
           /\ toolCalls' = st.toolCalls
           /\ finishReason' = st.finishReason
           /\ IF st.err # ""
              THEN sstate' = "returned" /\ ret' = Failed(st.err)
              ELSE sstate' = "reading" /\ ret' = ret
           /\ cbLog' = cbLog \o st.callbacks
    /\ latestFinish' = IF ev.finish # "" THEN ev.finish ELSE latestFinish
    /\ textLog' = IF ev.content # <<>> THEN Append(textLog, ev.content) ELSE textLog
    /\ nEvents' = nEvents + 1

Delta ==
    \E ev \in StreamEvents :
        /\ nEvents < MaxEvents
        /\ ReadDelta(ev)
        /\ UNCHANGED <<scenVars, loopVars, extVars>>

\* a line that is skipped: not "data: ", malformed JSON, or no choices
Skipped ==
    /\ sstate = "reading" /\ nEvents < MaxEvents
    /\ nEvents' = nEvents + 1
    /\ UNCHANGED <<fullResponse, toolCalls, finishReason, sstate, ret, latestFinish,
                   cbLog, textLog,
                   scenVars, loopVars, extVars>>

\* "[DONE]" or the body closes: the loop ends and the function returns
StreamEnd ==
    /\ sstate = "reading"
    /\ sstate' = "returned"
    /\ ret' = Finalize(StreamState(fullResponse, toolCalls, finishReason, ""))
    /\ UNCHANGED <<fullResponse, toolCalls, finishReason, nEvents, latestFinish,
                   cbLog, textLog,
                   scenVars, loopVars, extVars>>

\* scanner.Err() != nil
ReadError ==
    /\ sstate = "reading"
    /\ sstate' = "returned"
    /\ ret' = Failed("read")
    /\ UNCHANGED <<fullResponse, toolCalls, finishReason, nEvents, latestFinish,
                   cbLog, textLog,
                   scenVars, loopVars, extVars>>

NextStream == Delta \/ Skipped \/ StreamEnd \/ ReadError

SpecStream == InitStream /\ [][NextStream]_vars

\* C1: when the function has returned, every returned tool call has an id and a
\* name if the finish reason in effect is "tool_calls", and for any other finish
\* reason (none included) the returned list is empty.
C1_CompletenessFilter ==
    sstate = "returned" =>
        /\ finishReason = "tool_calls" =>
              \A i \in 1..Len(ret.calls) :
                  ret.calls[i].ID # "" /\ ret.calls[i].Name # ""
        /\ finishReason # "tool_calls" => ret.calls = <<>>
        /\ latestFinish # "tool_calls" => ret.calls = <<>>

\* a stream that ended on "tool_calls" and returned a call
C1_Witness ==
    /\ sstate = "returned" /\ finishReason = "tool_calls"
    /\ Len(ret.calls) >= 1

\* C6: the finish reason used at stream end is the latest non-empty one seen, so
\* calls closed by "tool_calls" are returned even when deltas without a finish
\* reason follow.
C6_LatestNonEmptyFinish ==
    (sstate = "returned" /\ ret.err = "" /\ latestFinish = "tool_calls")
        => ret.calls = FilterComplete(toolCalls)

\* --------------------------------- fragments of one logical tool call
\* The call has id call.id and index call.index.  Its first fragment introduces
\* it with both; every later fragment addresses it by that index (with or
\* without the id), or by the id alone (index absent, or sent as -1).
ScenChunks == {<<"{">>, <<"}">>}

HeaderFragments(c) ==
    { WireFragment(TRUE, c.index, c.id, TypeOf(name), name, a) :
        name \in Names, a \in {<<>>, <<"{">>} }

ByIndexFragments(c) ==
    { WireFragment(TRUE, c.index, id, TypeOf(name), name, a) :
        id \in {"", c.id}, name \in Names, a \in ScenChunks }

ByIDFragments(c) ==
    { WireFragment(h, -1, c.id, TypeOf(name), name, a) :
        h \in BOOLEAN, name \in Names, a \in ScenChunks }

InitOneCall ==
    /\ fullResponse = <<>> /\ toolCalls = <<>> /\ finishReason = ""
    /\ sstate = "reading" /\ nEvents = 0 /\ ret = Returned(<<>>, <<>>, "")
    /\ latestFinish = "" /\ cbLog = <<>> /\ textLog = <<>>
    /\ fragLog = <<>>
    /\ call \in { [id |-> "c1", index |-> k] : k \in 0..MaxIndex }
    /\ LoopIdle /\ ExtIdle

Feed(f) ==
    /\ Len(fragLog) < MaxFrags
    /\ ReadDelta(DeltaEvent(<<>>, <<f>>, "", TRUE))
    /\ fragLog' = Append(fragLog, f)
    /\ UNCHANGED <<call, loopVars, extVars>>

FeedHeader == fragLog = <<>> /\ \E f \in HeaderFragments(call) : Feed(f)

FeedByIndex == fragLog # <<>> /\ \E f \in ByIndexFragments(call) : Feed(f)

FeedByID == fragLog # <<>> /\ \E f \in ByIDFragments(call) : Feed(f)

NextOneCall == FeedHeader \/ FeedByIndex \/ FeedByID

SpecOneCall == InitOneCall /\ [][NextOneCall]_vars

\* the argument text of the fragments fed, in arrival order
RECURSIVE ArgsOf(_)
ArgsOf(fs) == IF fs = <<>> THEN <<>> ELSE Head(fs).args \o ArgsOf(Tail(fs))

\* the positions of the list that hold the logical call
EntriesOf(id) == { p \in 1..Len(toolCalls) : toolCalls[p].ID = id }

\* C7: fragments of one call, addressed by its index or by its id, leave exactly
\* one entry for the call, holding all their argument text in arrival order.
C7_IndexOrIDConverges ==
    fragLog # <<>> =>
        /\ Cardinality(EntriesOf(call.id)) = 1
        /\ \A p \in EntriesOf(call.id) : toolCalls[p].Arguments = ArgsOf(fragLog)

\* all fragments so far carry the call's index
SameIndex == \A i \in 1..Len(fragLog) : fragLog[i].hasIndex /\ fragLog[i].index = call.index

\* the same text sent as a single fragment
OneChunk == <<[fragLog[1] EXCEPT !.args = ArgsOf(fragLog)]>>

\* C8: argument text split over N fragments with the same index is reconstructed
\* to the string that the same text gives when sent as one fragment.
C8_SplitArgumentsRoundTrip ==
    (fragLog # <<>> /\ SameIndex) =>
        /\ Len(toolCalls) = call.index + 1
        /\ toolCalls[call.index + 1].Arguments
              = MergeFragments(<<>>, OneChunk)[call.index + 1].Arguments
        /\ toolCalls[call.index + 1].Arguments = ArgsOf(fragLog)

\* text split over three fragments, at least two of them different
C8_Witness ==
    /\ Len(fragLog) = 3 /\ SameIndex
    /\ fragLog[2].args # fragLog[3].args
    /\ toolCalls[call.index + 1].Arguments = ArgsOf(fragLog)

\* the first two fragments are one complete fragment, fed twice
Replayed ==
    /\ Len(fragLog) = 2 /\ fragLog[1] = fragLog[2]
    /\ fragLog[1].id # "" /\ fragLog[1].name # ""

\* C9: a complete fragment fed twice leaves one entry for the call, id and name
\* unchanged, arguments equal to the fragment's text twice.
C9_ReplayAppendsOnly ==
    Replayed =>
        /\ Cardinality(EntriesOf(fragLog[1].id)) = 1
        /\ \A p \in EntriesOf(fragLog[1].id) :
              /\ toolCalls[p].ID = fragLog[1].id
              /\ toolCalls[p].Name = fragLog[1].name
              /\ toolCalls[p].Arguments = fragLog[1].args \o fragLog[1].args
        /\ \A p \in 1..Len(toolCalls) :
              p \notin EntriesOf(fragLog[1].id) => toolCalls[p] = EmptyToolCall(p - 1)

C9_Witness ==
    /\ Replayed /\ fragLog[1].args # <<>>
    /\ \E p \in 1..Len(toolCalls) :
          toolCalls[p].Arguments = fragLog[1].args \o fragLog[1].args

\* ------------------------------------------------ the conversation loops
\* llm.Message
Message(role, content, tcs, tcid, name) ==
    [Role |-> role, Content |-> content, ToolCalls |-> tcs, ToolCallID |-> tcid,
     Name |-> name]

SystemMessage == Message("system", <<"prompt">>, <<>>, "", "")
UserMessage == Message("user", <<"question">>, <<>>, "", "")

\* Message{Role: "assistant", Content: fullResponse} with the round's tool calls
AssistantMessage(text, tcs) == Message("assistant", text, tcs, "", "")

\* mutant: the tool message does not carry the call's id
ToolMessage_NoID(tc, content) == Message("tool", content, <<>>, "", tc.Name)

\* Message{Role: "tool", ToolCallID: toolCall.ID, Name: toolCall.Function.Name, ...}
ToolMessage(tc, content) == Message("tool", content, <<>>, tc.ID, tc.Name)

\* json.Unmarshal([]byte(arguments), &args): the text must be one JSON object
IsJSONObject(a) ==
    /\ Len(a) >= 2 /\ a[1] = "{" /\ a[Len(a)] = "}"
    /\ \A i \in 2..(Len(a) - 1) : a[i] \notin {"{", "}"}

\* Session.ExecuteTool: an unknown name is an error; a known tool may fail
KnownTools == {"read_file", "grep"}

ExecuteTool(name, ok) ==
    IF name \notin KnownTools THEN [out |-> <<>>, err |-> <<"unknown tool">>]
    ELSE IF ok THEN [out |-> <<"result">>, err |-> <<>>]
    ELSE [out |-> <<>>, err |-> <<"failed">>]

\* mutant: the error text is passed on without the prefix
ToolResult_NoPrefix(r) == IF r.err # <<>> THEN r.err ELSE r.out

\* result = fmt.Sprintf("Error: %v", err) when the executor fails
ToolResult(r) == IF r.err # <<>> THEN <<"Error: ">> \o r.err ELSE r.out

\* mutant: the loop condition is off by one
LoopContinues_OffByOne(it) == it <= maxIterations

\* for iteration < maxIterations
LoopContinues(it) == it < maxIterations

\* the whole of chatCompletionStream on one HTTP response
Stream(status, events, end) == [status |-> status, events |-> events, end |-> end]

\* the payload "[DONE]"
DoneEvent == [kind |-> "done", content |-> <<>>, frags |-> <<>>, finish |-> "",
              cbOk |-> TRUE]

\* mutant: "[DONE]" is passed over like a line that is skipped
RECURSIVE RunEvents_PastDone(_, _)
RunEvents_PastDone(st, evs) ==
    IF evs = <<>> \/ st.err # "" THEN st
    ELSE RunEvents_PastDone(IF Head(evs).kind = "done" THEN st
                            ELSE ProcessEvent(st, Head(evs)), Tail(evs))

\* the scanner loop over the events of the body: it ends with the body, at a
\* failure of the callback, or at "[DONE]"
RECURSIVE RunEvents(_, _)
RunEvents(st, evs) ==
    IF evs = <<>> \/ st.err # "" THEN st
    ELSE IF Head(evs).kind = "done" THEN st
    ELSE RunEvents(ProcessEvent(st, Head(evs)), Tail(evs))

chatCompletionStream(stream) ==
    IF stream.status # "200" THEN Failed("http")
    ELSE LET st == RunEvents(StreamStart, stream.events)
         IN  IF st.err # "" THEN Failed(st.err)
             ELSE IF stream.end = "readerr" THEN Failed("read")
             ELSE Finalize(st)

\* the callback invocations chatCompletionStream makes on one HTTP response
Callbacks(stream) ==
    IF stream.status # "200" THEN <<>>
    ELSE RunEvents(StreamStart, stream.events).callbacks

\* chatCompletion followed by ChatWithTools' check of the choices
Response(err, choices) == [err |-> err, choices |-> choices]

chatCompletion(resp) ==
    IF resp.err # "" THEN Failed(resp.err)
    ELSE IF Len(resp.choices) = 0 THEN Failed("no_choices")
    ELSE Returned(resp.choices[1].Content, resp.choices[1].ToolCalls, "")

\* ------------------------------------------------- replies of the model
Frag(i, id, name, args) == WireFragment(TRUE, i, id, TypeOf(name), name, args)
FragsDelta(fs, fr) == DeltaEvent(<<>>, fs, fr, TRUE)
TextDelta(c, fr) == DeltaEvent(c, <<>>, fr, TRUE)
Call(i, id, name, args) == ToolCall(i, id, TypeOf(name), name, args)
ArgsGood == <<"{", "}">>
ArgsBad == <<"{">>

\* one call, its arguments split over two deltas
StreamOneCall ==
    Stream("200", << FragsDelta(<<Frag(0, "c1", "read_file", <<"{">>)>>, ""),
                     FragsDelta(<<Frag(0, "", "", <<"}">>)>>, "tool_calls") >>, "done")
StreamText ==
    Stream("200", << TextDelta(<<"a">>, ""), SkipEvent, TextDelta(<<"b">>, "stop") >>, "done")
StreamReadError == Stream("200", << TextDelta(<<"a">>, "") >>, "readerr")
StreamHTTPError == Stream("500", <<>>, "eof")
\* the callback fails on the second text delta; more text and a call follow
StreamCallbackError ==
    Stream("200", << TextDelta(<<"a">>, ""), DeltaEvent(<<"b">>, <<>>, "", FALSE),
                     TextDelta(<<"c">>, ""),
                     FragsDelta(<<Frag(0, "c1", "read_file", ArgsGood)>>, "tool_calls") >>,
           "done")
StreamTwoCalls ==
    Stream("200", << FragsDelta(<<Frag(0, "c1", "read_file", ArgsGood),
                                  Frag(1, "c2", "grep", ArgsGood)>>, "tool_calls") >>, "eof")
StreamUnknownTool ==
    Stream("200", << FragsDelta(<<Frag(0, "c1", "bogus", ArgsGood),
                                  Frag(1, "c2", "grep", ArgsGood)>>, "tool_calls") >>, "done")
StreamNoName ==
    Stream("200", << TextDelta(<<"a">>, ""),
                     FragsDelta(<<Frag(0, "c1", "", ArgsGood)>>, "tool_calls") >>, "done")
StreamTrailingDelta ==
    Stream("200", << FragsDelta(<<Frag(0, "c1", "read_file", ArgsGood)>>, "tool_calls"),
                     FragsDelta(<<>>, "") >>, "done")
StreamBadArgsFirst ==
    Stream("200", << FragsDelta(<<Frag(0, "c1", "read_file", ArgsBad),
                                  Frag(1, "c2", "grep", ArgsGood)>>, "tool_calls") >>, "done")
StreamBadArgsSecond ==
    Stream("200", << FragsDelta(<<Frag(0, "c1", "read_file", ArgsGood),
                                  Frag(1, "c2", "grep", ArgsBad)>>, "tool_calls") >>, "done")

DefaultStreams == {StreamOneCall, StreamText, StreamReadError}
VariedStreams ==
    {StreamHTTPError, StreamCallbackError, StreamTwoCalls, StreamUnknownTool,
     StreamNoName, StreamTrailingDelta, StreamBadArgsFirst, StreamBadArgsSecond}

ResponseOneCall ==
    Response("", <<AssistantMessage(<<>>, <<Call(0, "c1", "read_file", ArgsGood)>>)>>)
ResponseText == Response("", <<AssistantMessage(<<"a", "b">>, <<>>)>>)
ResponseError == Response("http", <<>>)
ResponseNoChoices == Response("", <<>>)
ResponseTwoCalls ==
    Response("", <<AssistantMessage(<<>>, <<Call(0, "c1", "read_file", ArgsGood),
                                            Call(1, "c2", "grep", ArgsGood)>>)>>)
ResponseUnknownTool ==
    Response("", <<AssistantMessage(<<>>, <<Call(0, "c1", "bogus", ArgsGood),
                                            Call(1, "c2", "grep", ArgsGood)>>)>>)
ResponseNoID ==
    Response("", <<AssistantMessage(<<"a">>, <<Call(0, "", "read_file", ArgsGood)>>)>>)
ResponseNoName ==
    Response("", <<AssistantMessage(<<"a">>, <<Call(0, "c1", "", ArgsGood)>>)>>)
ResponseBadArgsFirst ==
    Response("", <<AssistantMessage(<<>>, <<Call(0, "c1", "read_file", ArgsBad),
                                            Call(1, "c2", "grep", ArgsGood)>>)>>)
ResponseBadArgsSecond ==
    Response("", <<AssistantMessage(<<>>, <<Call(0, "c1", "read_file", ArgsGood),
                                            Call(1, "c2", "grep", ArgsBad)>>)>>)

DefaultResponses == {ResponseOneCall, ResponseText, ResponseError}
VariedResponses ==
    {ResponseNoChoices, ResponseTwoCalls, ResponseUnknownTool, ResponseNoID,
     ResponseNoName, ResponseBadArgsFirst, ResponseBadArgsSecond}

\* what a loop returns to its caller: (text, error); raw is the argument text
\* the argument-decode error carries
LoopResult(text, err, raw) == [text |-> text, err |-> err, raw |-> raw]
NoResult == LoopResult(<<>>, "", <<>>)

\* mutant: the error does not carry the argument text
ParseFailure_NoRaw(tc) == LoopResult(<<>>, "parse_args", <<>>)

\* return "", fmt.Errorf("failed to parse tool arguments: %w (raw: %q)", ...)
ParseFailure(tc) == LoopResult(<<>>, "parse_args", tc.Arguments)

\* NewSession: the history starts with the system message
Init ==
    /\ StreamIdle /\ ScenIdle /\ ExtIdle
    /\ variant \in {"stream", "plain"}
    /\ pc = "idle"
    /\ s_messages = <<SystemMessage>>
    /\ originalCount = 0 /\ histBefore = <<>>
    /\ messages = <<>> /\ iteration = 0 /\ roundCalls = <<>> /\ ti = 0
    /\ result = NoResult /\ execLog = <<>> /\ lastSent = <<>>
    /\ calls = 0 /\ varied = 0 /\ turnCalls = 0
    /\ reply = Returned(<<>>, <<>>, "")
    /\ lastStream = NoStream /\ execResults = <<>>

\* Session.Start: a line of input is appended to the history and the streaming
\* loop is called with the session's slice
UserInput ==
    /\ variant = "stream" /\ pc = "idle" /\ calls < MaxCalls
    /\ histBefore' = s_messages
    /\ s_messages' = Append(s_messages, UserMessage)
    /\ originalCount' = Len(s_messages')
    /\ messages' = s_messages'
    /\ iteration' = 0 /\ turnCalls' = 0
    /\ result' = NoResult /\ reply' = Returned(<<>>, <<>>, "")
    /\ roundCalls' = <<>> /\ ti' = 0 /\ execLog' = <<>> /\ execResults' = <<>>
    /\ cbLog' = <<>> /\ lastStream' = NoStream
    /\ pc' = "loop"
    /\ UNCHANGED <<extVars, streamVars, scenVars, variant, lastSent, calls, varied>>

\* a caller of the non-streaming loop passes its message list
CallChatWithTools ==
    /\ variant = "plain" /\ pc = "idle"
    /\ histBefore' = s_messages
    /\ s_messages' = Append(s_messages, UserMessage)
    /\ messages' = s_messages'
    /\ iteration' = 0 /\ turnCalls' = 0
    /\ result' = NoResult /\ reply' = Returned(<<>>, <<>>, "")
    /\ roundCalls' = <<>> /\ ti' = 0 /\ execLog' = <<>> /\ execResults' = <<>>
    /\ pc' = "loop"
    /\ UNCHANGED <<extVars, streamVars, cbLog, scenVars, variant, originalCount, lastSent,
                   calls, varied, lastStream>>

\* the part of a round after the model's reply, common to both loops:
\* msg is the assistant message, appended is whether it is in the list already
AfterReply(r, withCalls, withoutCalls) ==
    /\ reply' = r
    /\ lastSent' = messages
    /\ calls' = calls + 1 /\ turnCalls' = turnCalls + 1
    /\ execLog' = <<>> /\ execResults' = <<>>
    /\ IF r.err # ""
       THEN /\ result' = LoopResult(<<>>, r.err, <<>>)
            /\ pc' = "return"
            /\ UNCHANGED <<messages, roundCalls, ti>>
       ELSE IF Len(r.calls) > 0
       THEN /\ messages' = withCalls
            /\ roundCalls' = r.calls /\ ti' = 1
            /\ pc' = "tools"
            /\ UNCHANGED result
       ELSE /\ messages' = withoutCalls
            /\ result' = LoopResult(r.text, "", <<>>)
            /\ pc' = "return"
            /\ UNCHANGED <<roundCalls, ti>>
    /\ UNCHANGED <<extVars, streamVars, scenVars, variant, s_messages, originalCount,
                   histBefore, iteration>>

\* ChatWithToolsStream: one pass of the loop body up to the tool calls
StreamRound ==
    /\ variant = "stream" /\ pc = "loop" /\ LoopContinues(iteration)
    /\ calls < MaxCalls
    /\ \E st \in DefaultStreams \cup VariedStreams :
          /\ st \in VariedStreams => varied < MaxVaried
          /\ varied' = IF st \in VariedStreams THEN varied + 1 ELSE varied
          /\ cbLog' = Callbacks(st) /\ lastStream' = st
          /\ LET r == chatCompletionStream(st)
             IN  AfterReply(r,
                            Append(messages, AssistantMessage(r.text, r.calls)),
                            Append(messages, AssistantMessage(r.text, <<>>)))

\* ChatWithTools: one pass of the loop body up to the tool calls
PlainRound ==
    /\ variant = "plain" /\ pc = "loop" /\ LoopContinues(iteration)
    /\ calls < MaxCalls
    /\ \E resp \in DefaultResponses \cup VariedResponses :
          /\ resp \in VariedResponses => varied < MaxVaried
          /\ varied' = IF resp \in VariedResponses THEN varied + 1 ELSE varied
          /\ UNCHANGED <<cbLog, lastStream>>
          /\ LET r == chatCompletion(resp)
                 with == IF r.err = "" THEN Append(messages, resp.choices[1])
                         ELSE messages
             IN  AfterReply(r, with, with)

\* the loop condition fails: maximum iterations reached
MaxIterationsReached ==
    /\ pc = "loop" /\ ~LoopContinues(iteration)
    /\ result' = LoopResult(<<>>, "max_iterations", <<>>)
    /\ pc' = "return"
    /\ UNCHANGED <<extVars, streamVars, scenVars, variant, s_messages, originalCount, histBefore,
                   messages, iteration, roundCalls, ti, execLog, lastSent, calls,
                   varied, turnCalls, reply, cbLog, lastStream, execResults>>

\* one pass of "for _, toolCall := range toolCalls": decode the arguments,
\* run the executor, append the tool message
ExecTool ==
    /\ pc = "tools"
    /\ LET tc == roundCalls[ti]
       IN  IF ~IsJSONObject(tc.Arguments)
           THEN /\ result' = ParseFailure(tc)
                /\ pc' = "return"
                /\ UNCHANGED <<messages, execLog, execResults, ti, iteration, varied>>
           ELSE \E ok \in BOOLEAN :
                /\ (~ok /\ tc.Name \in KnownTools) => varied < MaxVaried
                /\ varied' = IF ~ok /\ tc.Name \in KnownTools THEN varied + 1 ELSE varied
                /\ execLog' = Append(execLog, tc)
                /\ execResults' = Append(execResults, ExecuteTool(tc.Name, ok))
                /\ messages' = Append(messages,
                                      ToolMessage(tc, ToolResult(ExecuteTool(tc.Name, ok))))
                /\ ti' = ti + 1
                /\ IF ti = Len(roundCalls)
                   THEN iteration' = iteration + 1 /\ pc' = "loop"
                   ELSE iteration' = iteration /\ pc' = "tools"
                /\ UNCHANGED result
    /\ UNCHANGED <<extVars, streamVars, scenVars, variant, s_messages, originalCount, histBefore,
                   roundCalls, lastSent, calls, turnCalls, reply, cbLog, lastStream>>

\* Session.Start after ChatWithToolsStream returns
TurnEnd ==
    /\ variant = "stream" /\ pc = "return"
    /\ s_messages' = IF result.err # "" /\ Len(s_messages) > originalCount
                     THEN SubSeq(s_messages, 1, originalCount)
                     ELSE s_messages
    /\ pc' = "idle"
    /\ UNCHANGED <<extVars, streamVars, scenVars, variant, originalCount, histBefore, messages,
                   iteration, roundCalls, ti, result, execLog, lastSent, calls, varied,
                   turnCalls, reply, cbLog, lastStream, execResults>>

\* ChatWithTools has returned to its caller
ChatWithToolsReturns ==
    /\ variant = "plain" /\ pc = "return"
    /\ pc' = "done"
    /\ UNCHANGED <<extVars, streamVars, scenVars, variant, s_messages, originalCount, histBefore,
                   messages, iteration, roundCalls, ti, result, execLog, lastSent,
                   calls, varied, turnCalls, reply, cbLog, lastStream, execResults>>

Next ==
    \/ UserInput \/ CallChatWithTools \/ StreamRound \/ PlainRound
    \/ MaxIterationsReached \/ ExecTool \/ TurnEnd \/ ChatWithToolsReturns

Spec == Init /\ [][Next]_vars

\* C2: in both loops the executor is never invoked for a tool call whose id or
\* name is empty.
C2_NoIncompleteDispatch ==
    \A i \in 1..Len(execLog) : execLog[i].ID # "" /\ execLog[i].Name # ""

\* the loop's own local state at the end of a turn of the streaming loop
TurnSucceeded == variant = "stream" /\ pc = "idle" /\ turnCalls > 0 /\ result.err = ""
TurnFailed == variant = "stream" /\ pc = "idle" /\ result.err # ""

\* C3: the loop fails with the max-iterations error after exactly maxIterations
\* model calls that all returned tool calls; a model call that returns no tool
\* calls ends the loop with that round's text, never with that error.
C3_CapInvariant ==
    /\ turnCalls <= maxIterations
    /\ (pc = "loop" => turnCalls = iteration)
    /\ (result.err = "max_iterations" =>
            turnCalls = maxIterations /\ iteration = maxIterations /\ Len(reply.calls) > 0)
    /\ ((turnCalls > 0 /\ reply.err = "" /\ reply.calls = <<>>) =>
            /\ pc \in {"return", "idle", "done"}
            /\ result = LoopResult(reply.text, "", <<>>))

C3_IterationCap ==
    /\ []C3_CapInvariant
    /\ [][(pc = "loop" /\ iteration = maxIterations)
            => (pc' = "return" /\ result'.err = "max_iterations"
                /\ turnCalls' = maxIterations)]_vars

\* the loop has just failed on the cap
C3_Witness ==
    pc = "return" /\ result.err = "max_iterations" /\ turnCalls = maxIterations

\* C4: after a successful turn the session's history holds every assistant and
\* tool message of the turn after the user message, the final answer last.
C4_HistoryKeepsTurn == TurnSucceeded => s_messages = messages

\* C5: after a turn that failed fatally the session's history is the history
\* from before the turn's user message.
C5_FailedTurnRolledBack == TurnFailed => s_messages = histBefore

\* an assistant message with n tool calls is followed by exactly its n tool
\* messages, in order
Paired(ms) ==
    \A i \in 1..Len(ms) :
        (ms[i].Role = "assistant" /\ Len(ms[i].ToolCalls) > 0) =>
            LET n == Len(ms[i].ToolCalls)
            IN  /\ i + n <= Len(ms)
                /\ \A j \in 1..n :
                      /\ ms[i + j].Role = "tool"
                      /\ ms[i + j].ToolCallID = ms[i].ToolCalls[j].ID
                      /\ ms[i + j].Name = ms[i].ToolCalls[j].Name
                /\ (i + n < Len(ms) => ms[i + n + 1].Role # "tool")

\* the tool messages the loop has appended for the current round
RoundTail == SubSeq(messages, Len(messages) - Len(execLog) + 1, Len(messages))

\* C10: every list sent to the model pairs each assistant message's tool calls
\* with the tool messages that follow it; the tools of a round run one at a time
\* in the order of the calls, all before the next model call.
C10_ToolResultsPaired ==
    /\ Paired(lastSent)
    /\ (pc = "tools" =>
           /\ execLog = SubSeq(roundCalls, 1, ti - 1)
           /\ messages[Len(messages) - Len(execLog)].ToolCalls = roundCalls)
    /\ ((pc = "loop" /\ turnCalls > 0) =>
           /\ execLog = roundCalls
           /\ Paired(messages))
    /\ (pc \in {"tools", "loop"} =>
           \A j \in 1..Len(execLog) :
               /\ RoundTail[j].Role = "tool"
               /\ RoundTail[j].ToolCallID = execLog[j].ID
               /\ RoundTail[j].Name = execLog[j].Name)

\* a list was sent that holds a round of two tool calls and their results
C10_Witness ==
    \E i \in 1..Len(lastSent) :
        /\ Len(lastSent[i].ToolCalls) = 2
        /\ lastSent[i].ToolCalls[1].ID # lastSent[i].ToolCalls[2].ID
        /\ i + 2 <= Len(lastSent)

\* ----------------------------------------------- failures inside a round
\* C11: a failure of the executor does not abort the turn: the call gets a tool
\* message whose content is "Error: " followed by the error's message, the
\* remaining calls of the round are still executed, and the loop goes on to the
\* next model call.
C11_ExecutorFailureAbsorbed ==
    /\ Len(execResults) = Len(execLog)
    /\ (pc \in {"tools", "loop"} =>
           \A j \in 1..Len(execLog) :
               execResults[j].err # <<>> =>
                   /\ RoundTail[j] = ToolMessage(execLog[j], <<"Error: ">> \o execResults[j].err)
                   /\ result.err = "")
    /\ (pc = "tools" => Len(execLog) = ti - 1 /\ ti <= Len(roundCalls))
    /\ ((pc = "loop" /\ turnCalls > 0) =>
           /\ execLog = roundCalls
           /\ iteration = turnCalls
           /\ result.err = "")

\* the first call of a round of two failed, the second ran, and the loop is
\* about to call the model again
C11_Witness ==
    /\ pc = "loop" /\ LoopContinues(iteration)
    /\ Len(execLog) = 2
    /\ execResults[1].err # <<>> /\ execResults[2].err = <<>>

\* C12: when a call's arguments do not decode as JSON the loop returns an error
\* carrying the raw argument text: the executor is invoked neither for that call
\* nor for a later call of the round, and the model is not called again in the
\* turn.
C12_Undecodable == pc = "tools" /\ ~IsJSONObject(roundCalls[ti].Arguments)

C12_ParseErrorState ==
    result.err = "parse_args" =>
        /\ pc \in {"return", "idle", "done"}
        /\ ~IsJSONObject(roundCalls[ti].Arguments)
        /\ result.raw = roundCalls[ti].Arguments
        /\ execLog = SubSeq(roundCalls, 1, ti - 1)
        /\ reply.calls = roundCalls

C12_BadArgumentsAbortTurn ==
    /\ []C12_ParseErrorState
    /\ [][C12_Undecodable =>
            /\ result' = LoopResult(<<>>, "parse_args", roundCalls[ti].Arguments)
            /\ pc' = "return"
            /\ execLog' = execLog /\ messages' = messages]_vars
    /\ [][(result.err = "parse_args" /\ result'.err = "parse_args") =>
            calls' = calls /\ execLog' = execLog]_vars

\* the first of two calls has undecodable arguments; nothing was executed
C12_Witness ==
    /\ pc = "return" /\ result.err = "parse_args"
    /\ ti = 1 /\ Len(roundCalls) = 2 /\ execLog = <<>>
    /\ result.raw # <<>>

\* --------------------------------------------------- text and the callback
RECURSIVE Flatten(_)
Flatten(ss) == IF ss = <<>> THEN <<>> ELSE Head(ss) \o Flatten(Tail(ss))

\* C13: the callback has been invoked once per non-empty content delta, in
\* order, with exactly that delta, and the text returned is the concatenation
\* of those deltas in arrival order.
C13_TextAndCallback ==
    /\ cbLog = textLog
    /\ fullResponse = Flatten(textLog)
    /\ ((sstate = "returned" /\ ret.err = "") => ret.text = Flatten(textLog))

\* two different text deltas and a delta without text were read, then the
\* function returned
C13_Witness ==
    /\ sstate = "returned" /\ ret.err = ""
    /\ nEvents = 3 /\ Len(textLog) = 2 /\ textLog[1] # textLog[2]

\* position of the first delta on which the callback fails, 0 when none
FirstFailure(evs) ==
    LET fails == { i \in 1..Len(evs) :
                     evs[i].kind = "delta" /\ evs[i].content # <<>> /\ ~evs[i].cbOk }
    IN  IF fails = {} THEN 0 ELSE CHOOSE i \in fails : \A j \in fails : i <= j

HasText(ev) == ev.kind = "delta" /\ ev.content # <<>>
ContentOf(ev) == ev.content
ContentsOf(evs) == [i \in 1..Len(evs) |-> ContentOf(evs[i])]

\* C14: when the callback fails on a delta the streaming call stops there: the
\* callback saw the text deltas up to that one and none after it, no later
\* event had an effect, no tool was executed, and the loop returns that failure.
C14_CallbackFailureAborts ==
    (lastStream.status = "200" /\ FirstFailure(lastStream.events) # 0) =>
        LET k == FirstFailure(lastStream.events)
        IN  /\ reply = Failed("callback")
            /\ cbLog = ContentsOf(SelectSeq(SubSeq(lastStream.events, 1, k), HasText))
            /\ result = LoopResult(<<>>, "callback", <<>>)
            /\ execLog = <<>> /\ messages = lastSent
            /\ pc \in {"return", "idle"}

\* the callback failed while text and a tool call were still to come
C14_Witness ==
    /\ pc = "return" /\ result.err = "callback"
    /\ FirstFailure(lastStream.events) = 2 /\ Len(lastStream.events) = 4
    /\ Len(cbLog) = 2

\* C15: when reading the stream fails, the error is returned together with the
\* text accumulated so far.
C15_ReadErrorKeepsText ==
    (sstate = "returned" /\ ret.err = "read") => ret.text = fullResponse

\* ------------------------------------------------------ paths (pkg/fsctx)
\* A path is a string: a sequence of characters, "/" the separator.
Last(q) == q[Len(q)]
Front(q) == SubSeq(q, 1, Len(q) - 1)

\* strings.HasPrefix
HasPrefix(str, prefix) ==
    Len(str) >= Len(prefix) /\ SubSeq(str, 1, Len(prefix)) = prefix

\* filepath.IsAbs
IsAbs(path) == path # <<>> /\ path[1] = "/"

\* the elements of a path, empty ones (repeated separators) dropped
RECURSIVE SplitFrom(_, _, _)
SplitFrom(str, cur, acc) ==
    IF str = <<>> THEN (IF cur = <<>> THEN acc ELSE Append(acc, cur))
    ELSE IF Head(str) = "/"
         THEN SplitFrom(Tail(str), <<>>, IF cur = <<>> THEN acc ELSE Append(acc, cur))
         ELSE SplitFrom(Tail(str), Append(cur, Head(str)), acc)

Split(str) == SplitFrom(str, <<>>, <<>>)

Dot == <<".">>
DotDot == <<".", ".">>

\* filepath.Clean on the elements: "." is dropped, ".." removes the element
\* before it, is dropped at the root of a rooted path, and is kept at the
\* front of a relative one
RECURSIVE CleanElems(_, _, _)
CleanElems(out, rest, rooted) ==
    IF rest = <<>> THEN out
    ELSE LET e == Head(rest)
         IN  IF e = Dot THEN CleanElems(out, Tail(rest), rooted)
             ELSE IF e = DotDot
             THEN IF out # <<>> /\ Last(out) # DotDot
                  THEN CleanElems(Front(out), Tail(rest), rooted)
                  ELSE IF rooted THEN CleanElems(out, Tail(rest), rooted)
                  ELSE CleanElems(Append(out, e), Tail(rest), rooted)
             ELSE CleanElems(Append(out, e), Tail(rest), rooted)

RECURSIVE JoinElems(_)
JoinElems(es) ==
    IF es = <<>> THEN <<>>
    ELSE IF Len(es) = 1 THEN es[1]
    ELSE es[1] \o <<"/">> \o JoinElems(Tail(es))

\* the cleaned elements written back as a path
Unsplit(rooted, es) ==
    IF rooted THEN <<"/">> \o JoinElems(es)
    ELSE IF es = <<>> THEN Dot
    ELSE JoinElems(es)

\* filepath.Clean
Clean(path) == Unsplit(IsAbs(path), CleanElems(<<>>, Split(path), IsAbs(path)))

\* filepath.Join of two elements: empty elements are ignored, the result is Clean
Join(a, b) ==
    IF a = <<>> /\ b = <<>> THEN <<>>
    ELSE Clean(IF a = <<>> THEN b ELSE IF b = <<>> THEN a ELSE a \o <<"/">> \o b)

\* the process's working directory
Cwd == <<"/">>

\* filepath.Abs
Abs(path) == IF IsAbs(path) THEN Clean(path) ELSE Join(Cwd, path)

\* length of the longest common prefix of two element lists
RECURSIVE CommonLen(_, _)
CommonLen(a, b) ==
    IF a = <<>> \/ b = <<>> \/ Head(a) # Head(b) THEN 0
    ELSE 1 + CommonLen(Tail(a), Tail(b))

\* from b up to the common prefix of length k, then down to t
RelElems(b, t, k) == [i \in 1..(Len(b) - k) |-> DotDot] \o SubSeq(t, k + 1, Len(t))

RelOf(b, t) == Unsplit(FALSE, RelElems(b, t, CommonLen(b, t)))

\* filepath.Rel for two absolute paths
Rel(basepath, targpath) == RelOf(Split(Clean(basepath)), Split(Clean(targpath)))

\* fsctx.ValidatePath: "" for nil, else the error
ValidatePath(projectRoot, filePath) ==
    IF HasPrefix(Rel(Abs(projectRoot), Abs(filePath)), <<".", ".">>)
    THEN "outside_root"
    ELSE ""

PathResult(path, err) == [path |-> path, err |-> err]

\* ResolvePath once fullPath is built: an absolute input is validated as
\* given, and the final path is validated in every case
Validated(abs, fullPath, err) ==
    IF abs /\ err # "" THEN PathResult(<<>>, err)
    ELSE IF err # "" THEN PathResult(<<>>, err)
    ELSE PathResult(fullPath, "")

FullPath(projectRoot, path) == IF IsAbs(path) THEN path ELSE Join(projectRoot, path)

\* fsctx.ResolvePath
ResolvePath(projectRoot, path) ==
    Validated(IsAbs(path), FullPath(projectRoot, path),
              ValidatePath(projectRoot, FullPath(projectRoot, path)))

\* the project root, an absolute path
ProjectRoot == <<"/", "w">>

PathChars == {"w", ".", "/"}
PathStrings == UNION { [1..n -> PathChars] : n \in 0..MaxPathLen }

InitPath ==
    /\ rp_path \in PathStrings /\ rp_pc = "input" /\ rp_ret = PathResult(<<>>, "")
    /\ StreamIdle /\ ScenIdle /\ LoopIdle /\ ToolIdle /\ ChatIdle /\ SrvIdle /\ FnIdle

\* ResolvePath(projectRoot, path) is called
Resolve ==
    /\ rp_pc = "input"
    /\ rp_ret' = ResolvePath(ProjectRoot, rp_path)
    /\ rp_pc' = "resolved"
    /\ UNCHANGED <<rp_path, streamVars, cbLog, scenVars, loopVars, toolVars, chatVars,
                   srvVars, fnVars>>

NextPath == Resolve

SpecPath == InitPath /\ [][NextPath]_vars

\* where a path leads, the file system's way: its elements walked from the root
\* for an absolute path, from the project root for a relative one
Target(path) ==
    CleanElems(<<>>,
               IF IsAbs(path) THEN Split(path) ELSE Split(ProjectRoot) \o Split(path),
               TRUE)

InsideRoot(path) ==
    LET r == Split(ProjectRoot)
        t == Target(path)
    IN  Len(t) >= Len(r) /\ SubSeq(t, 1, Len(r)) = r

\* C17: ResolvePath fails for every path that leads outside the project root,
\* and for every relative path that leads inside it succeeds and returns the
\* root joined with the path.
C17_ResolveConfined ==
    rp_pc = "resolved" =>
        /\ (~InsideRoot(rp_path) => rp_ret.err # "")
        /\ ((~IsAbs(rp_path) /\ InsideRoot(rp_path)) =>
                rp_ret = PathResult(Join(ProjectRoot, rp_path), ""))

\* ------------------------------------------- the mutating tools (pkg/chat)
\* strings.Contains
Contains(str, sub) ==
    \E i \in 1..(Len(str) - Len(sub) + 1) : SubSeq(str, i, i + Len(sub) - 1) = sub

\* filepath.Base: the last element; "." for the empty path, "/" for the root
Base(path) ==
    IF path = <<>> THEN <<".">>
    ELSE IF Split(path) = <<>> THEN <<"/">>
    ELSE Last(Split(path))

\* filepath.Match for patterns of plain characters and "*", which matches any
\* run of characters other than the separator
RECURSIVE GlobMatch(_, _)
GlobMatch(pattern, name) ==
    IF pattern = <<>> THEN name = <<>>
    ELSE IF Head(pattern) = "*"
    THEN \/ GlobMatch(Tail(pattern), name)
         \/ name # <<>> /\ Head(name) # "/" /\ GlobMatch(pattern, Tail(name))
    ELSE name # <<>> /\ Head(name) = Head(pattern) /\ GlobMatch(Tail(pattern), Tail(name))

\* strings.TrimSpace
RECURSIVE TrimLeft(_)
TrimLeft(str) ==
    IF str # <<>> /\ Head(str) = " " THEN TrimLeft(Tail(str)) ELSE str

RECURSIVE TrimRight(_)
TrimRight(str) ==
    IF str # <<>> /\ Last(str) = " " THEN TrimRight(Front(str)) ELSE str

TrimSpace(str) == TrimRight(TrimLeft(str))

\* the three tests ShouldIgnore makes for one trimmed pattern
MatchesPattern(path, pattern) ==
    /\ pattern # <<>>
    /\ \/ HasPrefix(path, pattern)
       \/ GlobMatch(pattern, Base(path))
       \/ Contains(path, pattern)

\* project.ShouldIgnore (through fsctx.ShouldIgnore)
ShouldIgnore(path, ignorePatterns) ==
    \E i \in 1..Len(ignorePatterns) : MatchesPattern(path, TrimSpace(ignorePatterns[i]))

\* cfg.Context.Ignore: one directory pattern, as in the default list
Ignore == << <<"g", "/">> >>

\* The disk under the project root: each path is absent, a directory, or a
\* regular file holding "old" or "new".
DiskPaths == { <<"/", "w", "/", "w">>, <<"/", "w", "/", "g">>,
               <<"/", "w", "/", "g", "/", "w">> }

\* filepath.Dir of a cleaned absolute path
Dir(path) ==
    LET es == Split(path)
    IN  IF Len(es) <= 1 THEN <<"/">> ELSE <<"/">> \o JoinElems(Front(es))

\* os.Stat: the project root itself is a directory
Stat(disk, path) ==
    IF path = ProjectRoot THEN "dir"
    ELSE IF path \in DiskPaths THEN disk[path]
    ELSE "absent"

IsFile(entry) == entry \notin {"absent", "dir"}

Below(path) == { q \in DiskPaths : q # path /\ HasPrefix(q, path \o <<"/">>) }

FsResult(disk, err) == [disk |-> disk, err |-> err]

\* os.MkdirAll
MkdirAll(disk, path) ==
    IF Stat(disk, path) = "dir" THEN FsResult(disk, "")
    ELSE IF Stat(disk, path) # "absent" THEN FsResult(disk, "not_a_directory")
    ELSE IF path \notin DiskPaths THEN FsResult(disk, "mkdir")
    ELSE IF Stat(disk, Dir(path)) = "dir"
         THEN FsResult([disk EXCEPT ![path] = "dir"], "")
    ELSE IF IsFile(Stat(disk, Dir(path))) THEN FsResult(disk, "not_a_directory")
    ELSE FsResult([disk EXCEPT ![path] = "dir", ![Dir(path)] = "dir"], "")

\* os.WriteFile
OsWriteFile(disk, path, content) ==
    IF path \notin DiskPaths \/ Stat(disk, Dir(path)) # "dir" \/ Stat(disk, path) = "dir"
    THEN FsResult(disk, "write")
    ELSE FsResult([disk EXCEPT ![path] = content], "")

\* os.Remove
OsRemove(disk, path) ==
    IF path \notin DiskPaths \/ Stat(disk, path) = "absent" THEN FsResult(disk, "remove")
    ELSE IF \E q \in Below(path) : disk[q] # "absent" THEN FsResult(disk, "not_empty")
    ELSE FsResult([disk EXCEPT ![path] = "absent"], "")

\* os.RemoveAll
OsRemoveAll(disk, path) ==
    FsResult([q \in DiskPaths |->
                 IF q = path \/ q \in Below(path) THEN "absent" ELSE disk[q]], "")

\* os.Rename; what is below a moved directory leaves the modelled paths
OsRename(disk, src, dst) ==
    IF Stat(disk, src) = "absent" \/ Stat(disk, Dir(dst)) # "dir" THEN FsResult(disk, "rename")
    ELSE IF src = dst THEN FsResult(disk, "")
    ELSE IF src \notin DiskPaths \/ dst \notin DiskPaths THEN FsResult(disk, "rename")
    ELSE IF IsFile(disk[src])
         THEN IF disk[dst] = "dir" THEN FsResult(disk, "is_a_directory")
              ELSE FsResult([disk EXCEPT ![dst] = disk[src], ![src] = "absent"], "")
    ELSE IF dst \in Below(src) THEN FsResult(disk, "invalid")
    ELSE IF IsFile(disk[dst]) THEN FsResult(disk, "not_a_directory")
    ELSE IF \E q \in Below(dst) : disk[q] # "absent" THEN FsResult(disk, "not_empty")
    ELSE FsResult([q \in DiskPaths |->
                      IF q = dst THEN "dir"
                      ELSE IF q = src \/ q \in Below(src) THEN "absent"
                      ELSE disk[q]], "")

\* WriteFile after os.MkdirAll of the parent directory returned m
WriteFile_Made(m, fullPath, content) ==
    IF m.err # "" THEN m ELSE OsWriteFile(m.disk, fullPath, content)

\* WriteFile after ResolvePath returned r
WriteFile_Resolved(disk, r, content) ==
    IF r.err # "" THEN FsResult(disk, "invalid_path")
    ELSE WriteFile_Made(MkdirAll(disk, Dir(r.path)), r.path, content)

\* fsctx.WriteFile
WriteFile(projectRoot, filePath, content, disk) ==
    IF ShouldIgnore(filePath, Ignore) THEN FsResult(disk, "ignored_path")
    ELSE WriteFile_Resolved(disk, ResolvePath(projectRoot, filePath), content)

\* fsctx.ReadFile: the content, or an error
ReadFile_Resolved(disk, r) ==
    IF r.err # "" THEN [content |-> "", err |-> "invalid_path"]
    ELSE IF Stat(disk, r.path) = "absent" THEN [content |-> "", err |-> "not_found"]
    ELSE IF Stat(disk, r.path) = "dir" THEN [content |-> "", err |-> "is_a_directory"]
    ELSE [content |-> Stat(disk, r.path), err |-> ""]

ReadFile(projectRoot, filePath, disk) ==
    ReadFile_Resolved(disk, ResolvePath(projectRoot, filePath))

\* strings.ToLower and strings.TrimSpace on the characters of an answer
LowerOf(c) ==
    CASE c = "Y" -> "y" [] c = "E" -> "e" [] c = "S" -> "s" [] c = "N" -> "n"
      [] OTHER -> c

ToLower(str) == [i \in 1..Len(str) |-> LowerOf(str[i])]

\* mutant: every answer but "n" confirms
confirmAction_AllButN(stdin) ==
    IF ~stdin.ok THEN [confirmed |-> FALSE, err |-> "no_input"]
    ELSE [confirmed |-> TrimSpace(ToLower(stdin.text)) # <<"n">>, err |-> ""]

\* Session.confirmAction: reads one line from the session's scanner
confirmAction(stdin) ==
    IF ~stdin.ok THEN [confirmed |-> FALSE, err |-> "no_input"]
    ELSE LET response == TrimSpace(ToLower(stdin.text))
         IN  IF response = <<>> THEN [confirmed |-> TRUE, err |-> ""]
             ELSE [confirmed |-> response = <<"y", "e", "s">> \/ response = <<"y">>,
                   err |-> ""]

\* what a tool returns, with the disk it leaves; asked: the user was prompted
ToolRet(disk, out, err, asked) == [disk |-> disk, out |-> out, err |-> err, asked |-> asked]
ToolError(disk, err) == ToolRet(disk, "", err, FALSE)

\* the common tail of the mutating tools: confirmation, then the effect
Confirmed(disk, stdin, effect) ==
    LET c == confirmAction(stdin)
    IN  IF c.err # "" THEN ToolRet(disk, "", "confirmation_failed", TRUE)
        ELSE IF ~c.confirmed THEN ToolRet(disk, "cancelled", "", TRUE)
        ELSE IF effect.err # "" THEN ToolRet(effect.disk, "", effect.err, TRUE)
        ELSE ToolRet(effect.disk, "success", "", TRUE)

\* a call: the tool's name and its arguments (content is always "new")
ToolCallArgs(name, path, dest, old) == [name |-> name, path |-> path, dest |-> dest, old |-> old]

toolWriteFile(c, disk, stdin) ==
    IF c.path = <<>> THEN ToolError(disk, "path_required")
    ELSE IF ResolvePath(ProjectRoot, c.path).err # "" THEN ToolError(disk, "invalid_path")
    ELSE Confirmed(disk, stdin, WriteFile(ProjectRoot, c.path, "new", disk))

toolCreateFile_Resolved(c, disk, stdin, r) ==
    IF r.err # "" THEN ToolError(disk, "invalid_path")
    ELSE IF Stat(disk, r.path) # "absent" THEN ToolError(disk, "already_exists")
    ELSE Confirmed(disk, stdin, WriteFile(ProjectRoot, c.path, "new", disk))

toolCreateFile(c, disk, stdin) ==
    IF c.path = <<>> THEN ToolError(disk, "path_required")
    ELSE toolCreateFile_Resolved(c, disk, stdin, ResolvePath(ProjectRoot, c.path))

toolUpdateFile_Resolved(c, disk, stdin, r) ==
    IF r.err # "" THEN ToolError(disk, "invalid_path")
    ELSE IF Stat(disk, r.path) = "absent" THEN ToolError(disk, "does_not_exist")
    ELSE Confirmed(disk, stdin, WriteFile(ProjectRoot, c.path, "new", disk))

toolUpdateFile(c, disk, stdin) ==
    IF c.path = <<>> THEN ToolError(disk, "path_required")
    ELSE toolUpdateFile_Resolved(c, disk, stdin, ResolvePath(ProjectRoot, c.path))

\* the file's text is one token, so the pattern occurs when it is that token,
\* and replacing it by the new string gives "new"
toolStringReplace_Resolved(c, disk, stdin, f) ==
    IF f.err # "" THEN ToolError(disk, f.err)
    ELSE IF f.content # c.old THEN ToolError(disk, "pattern_not_found")
    ELSE Confirmed(disk, stdin, WriteFile(ProjectRoot, c.path, "new", disk))

toolStringReplace(c, disk, stdin) ==
    IF c.path = <<>> THEN ToolError(disk, "path_required")
    ELSE toolStringReplace_Resolved(c, disk, stdin, ReadFile(ProjectRoot, c.path, disk))

toolCreateDirectory_Resolved(c, disk, stdin, r) ==
    IF r.err # "" THEN ToolError(disk, "invalid_path")
    ELSE IF Stat(disk, r.path) # "absent" THEN ToolError(disk, "already_exists")
    ELSE Confirmed(disk, stdin, MkdirAll(disk, r.path))

toolCreateDirectory(c, disk, stdin) ==
    IF c.path = <<>> THEN ToolError(disk, "path_required")
    ELSE toolCreateDirectory_Resolved(c, disk, stdin, ResolvePath(ProjectRoot, c.path))

toolDeleteFile_Resolved(c, disk, stdin, r) ==
    IF r.err # "" THEN ToolError(disk, "invalid_path")
    ELSE IF Stat(disk, r.path) = "absent" THEN ToolError(disk, "does_not_exist")
    ELSE Confirmed(disk, stdin, OsRemove(disk, r.path))

\* mutant: the path argument is not checked for presence
toolDeleteFile_Unchecked(c, disk, stdin) ==
    toolDeleteFile_Resolved(c, disk, stdin, ResolvePath(ProjectRoot, c.path))

toolDeleteFile(c, disk, stdin) ==
    IF c.path = <<>> THEN ToolError(disk, "path_required")
    ELSE toolDeleteFile_Resolved(c, disk, stdin, ResolvePath(ProjectRoot, c.path))

toolDeleteDirectory_Resolved(c, disk, stdin, r) ==
    IF r.err # "" THEN ToolError(disk, "invalid_path")
    ELSE IF Stat(disk, r.path) = "absent" THEN ToolError(disk, "does_not_exist")
    ELSE IF Stat(disk, r.path) # "dir" THEN ToolError(disk, "not_a_directory")
    ELSE Confirmed(disk, stdin, OsRemoveAll(disk, r.path))

toolDeleteDirectory(c, disk, stdin) ==
    IF c.path = <<>> THEN ToolError(disk, "path_required")
    ELSE toolDeleteDirectory_Resolved(c, disk, stdin, ResolvePath(ProjectRoot, c.path))

\* os.MkdirAll(filepath.Dir(destPath)), then os.Rename
MoveEffect(disk, src, dst) ==
    LET m == MkdirAll(disk, Dir(dst))
    IN  IF m.err # "" THEN m ELSE OsRename(m.disk, src, dst)

toolMoveFile_Resolved(disk, stdin, src, dst) ==
    IF src.err # "" THEN ToolError(disk, "invalid_source")
    ELSE IF dst.err # "" THEN ToolError(disk, "invalid_destination")
    ELSE IF Stat(disk, src.path) = "absent" THEN ToolError(disk, "does_not_exist")
    ELSE Confirmed(disk, stdin, MoveEffect(disk, src.path, dst.path))

toolMoveFile(c, disk, stdin) ==
    IF c.path = <<>> THEN ToolError(disk, "source_required")
    ELSE IF c.dest = <<>> THEN ToolError(disk, "destination_required")
    ELSE toolMoveFile_Resolved(disk, stdin, ResolvePath(ProjectRoot, c.path),
                                ResolvePath(ProjectRoot, c.dest))

\* os.ReadFile(sourcePath), os.MkdirAll(filepath.Dir(destPath)), os.WriteFile
CopyEffect(disk, src, dst) ==
    IF ~IsFile(Stat(disk, src)) THEN FsResult(disk, "read_source")
    ELSE LET m == MkdirAll(disk, Dir(dst))
         IN  IF m.err # "" THEN m ELSE OsWriteFile(m.disk, dst, Stat(disk, src))

toolCopyFile_Resolved(disk, stdin, src, dst) ==
    IF src.err # "" THEN ToolError(disk, "invalid_source")
    ELSE IF dst.err # "" THEN ToolError(disk, "invalid_destination")
    ELSE IF Stat(disk, src.path) = "absent" THEN ToolError(disk, "does_not_exist")
    ELSE Confirmed(disk, stdin, CopyEffect(disk, src.path, dst.path))

toolCopyFile(c, disk, stdin) ==
    IF c.path = <<>> THEN ToolError(disk, "source_required")
    ELSE IF c.dest = <<>> THEN ToolError(disk, "destination_required")
    ELSE toolCopyFile_Resolved(disk, stdin, ResolvePath(ProjectRoot, c.path),
                                ResolvePath(ProjectRoot, c.dest))

OnePathTools == {"write_file", "create_file", "update_file", "string_replace",
                 "create_directory", "delete_file", "delete_directory"}
TwoPathTools == {"move_file", "copy_file"}
MutatingTools == OnePathTools \cup TwoPathTools

\* Session.ExecuteTool's switch, for the mutating tools
DispatchTool(c, disk, stdin) ==
    CASE c.name = "write_file" -> toolWriteFile(c, disk, stdin)
      [] c.name = "create_file" -> toolCreateFile(c, disk, stdin)
      [] c.name = "update_file" -> toolUpdateFile(c, disk, stdin)
      [] c.name = "string_replace" -> toolStringReplace(c, disk, stdin)
      [] c.name = "create_directory" -> toolCreateDirectory(c, disk, stdin)
      [] c.name = "delete_file" -> toolDeleteFile(c, disk, stdin)
      [] c.name = "delete_directory" -> toolDeleteDirectory(c, disk, stdin)
      [] c.name = "move_file" -> toolMoveFile(c, disk, stdin)
      [] c.name = "copy_file" -> toolCopyFile(c, disk, stdin)
      [] OTHER -> ToolError(disk, "unknown_tool")

\* paths the model asks for: a file, a file under the ignored directory, that
\* directory, and a path that leaves the root
ToolPaths == { <<"w">>, <<"g", "/", "w">>, <<"g">>, <<".", ".", "/", "w">> }

\* lines the user may type at the prompt
Answers == { <<>>, <<"y">>, <<"Y">>, <<" ", "Y", "e", "S", " ">>, <<" ">>,
             <<"n">>, <<"y", "y">>, <<"n", "o">> }

\* disks the call may find
Disks ==
    { d \in [DiskPaths -> {"absent", "dir", "old"}] :
        /\ d[<<"/", "w", "/", "w">>] # "dir"
        /\ (d[<<"/", "w", "/", "g", "/", "w">>] # "absent" => d[<<"/", "w", "/", "g">>] = "dir")
        /\ d[<<"/", "w", "/", "g", "/", "w">>] # "dir" }

ToolCalls ==
    { ToolCallArgs(n, p, <<>>, "") : n \in OnePathTools \ {"string_replace"}, p \in ToolPaths }
    \cup { ToolCallArgs("string_replace", p, <<>>, o) : p \in ToolPaths, o \in {"old", "other"} }
    \cup { ToolCallArgs(n, p, q, "") : n \in TwoPathTools, p \in ToolPaths, q \in ToolPaths }

InitTools ==
    /\ t_call \in ToolCalls
    /\ t_stdin \in { [ok |-> TRUE, text |-> a] : a \in Answers }
                   \cup { [ok |-> FALSE, text |-> <<>>] }
    /\ t_before \in Disks /\ t_disk = t_before
    /\ t_ret = [out |-> "", err |-> "", asked |-> FALSE]
    /\ t_pc = "called"
    /\ StreamIdle /\ ScenIdle /\ LoopIdle /\ PathIdle /\ ChatIdle /\ SrvIdle /\ FnIdle

\* the model's tool call is executed
RunTool ==
    /\ t_pc = "called"
    /\ LET r == DispatchTool(t_call, t_disk, t_stdin)
       IN  /\ t_disk' = r.disk
           /\ t_ret' = [out |-> r.out, err |-> r.err, asked |-> r.asked]
    /\ t_pc' = "returned"
    /\ UNCHANGED <<t_call, t_stdin, t_before, streamVars, cbLog, scenVars, loopVars,
                   pathVars, chatVars, srvVars, fnVars>>

NextTools == RunTool

SpecTools == InitTools /\ [][NextTools]_vars

\* the answers the prompt takes as a yes: an empty line, "y" and "yes", in any
\* case and with blanks around
Affirmative == { <<>>, <<"y">>, <<"Y">>, <<" ", "Y", "e", "S", " ">>, <<" ">> }

\* C16: a mutating tool changes the disk only after the user was asked and gave
\* an affirmative answer; on any other answer it returns the cancelled result
\* without an error and leaves the disk as it was.
C16_ConfirmationGate ==
    t_pc = "returned" =>
        /\ (t_disk # t_before =>
               t_ret.asked /\ t_stdin.ok /\ t_stdin.text \in Affirmative)
        /\ ((t_ret.asked /\ t_stdin.ok /\ t_stdin.text \notin Affirmative) =>
               /\ t_ret.out = "cancelled" /\ t_ret.err = ""
               /\ t_disk = t_before)
        /\ ((t_ret.asked /\ t_stdin.ok /\ t_stdin.text \in Affirmative) =>
               t_ret.out # "cancelled")

\* a deletion was declined with "no" and the file is still there
C16_Witness ==
    /\ t_pc = "returned" /\ t_call.name = "delete_file"
    /\ t_stdin.ok /\ t_stdin.text = <<"n", "o">>
    /\ t_ret.out = "cancelled" /\ t_before[<<"/", "w", "/", "w">>] = "old"
    /\ t_call.path = <<"w">>

\* the target of a call: the path, and the destination of a move or a copy
Targets(c) == IF c.name \in TwoPathTools THEN {c.path, c.dest} ELSE {c.path}

Refused(path) == ShouldIgnore(path, Ignore) \/ ~InsideRoot(path)

\* C18: a mutating tool whose target is on the ignore list or outside the root
\* changes nothing on the disk, whatever the user answers.
C18_IgnoredPathsUntouched ==
    (t_pc = "returned" /\ \E p \in Targets(t_call) : Refused(p)) => t_disk = t_before

\* --------------------------------------------- the non-streaming Chat call
\* One HTTP exchange: sent is false when the request fails in transport; json is
\* whether the body decodes; error whether it carries an "error" object.
HTTPExchange(sent, status, json, error, choices) ==
    [sent |-> sent, status |-> status, json |-> json, error |-> error, choices |-> choices]

\* Client.chatCompletion in full: the decoded response, or the error
DoChatCompletion(http) ==
    IF ~http.sent THEN Response("send", <<>>)
    ELSE IF http.status # 200 THEN Response("status", <<>>)
    ELSE IF ~http.json THEN Response("decode", <<>>)
    ELSE IF http.error THEN Response("api_error", <<>>)
    ELSE Response("", http.choices)

ChatResult(content, err) == [content |-> content, err |-> err]

\* mutant: the content of the last choice is returned
Chat_LastChoice(http) ==
    LET resp == DoChatCompletion(http)
    IN  IF resp.err # "" THEN ChatResult(<<>>, resp.err)
        ELSE IF Len(resp.choices) = 0 THEN ChatResult(<<>>, "no_choices")
        ELSE IF resp.choices[Len(resp.choices)].Content = <<>>
             THEN ChatResult(<<>>, "empty_response")
        ELSE ChatResult(resp.choices[Len(resp.choices)].Content, "")

\* Client.Chat
Chat(http) ==
    LET resp == DoChatCompletion(http)
    IN  IF resp.err # "" THEN ChatResult(<<>>, resp.err)
        ELSE IF Len(resp.choices) = 0 THEN ChatResult(<<>>, "no_choices")
        ELSE IF resp.choices[1].Content = <<>> THEN ChatResult(<<>>, "empty_response")
        ELSE ChatResult(resp.choices[1].Content, "")

Statuses == {200, 404, 500}
ChoiceMessages == { AssistantMessage(c, <<>>) : c \in {<<>>, <<"a">>, <<"b">>} }
ChoiceLists == UNION { [1..n -> ChoiceMessages] : n \in 0..MaxChoices }
HTTPExchanges ==
    { HTTPExchange(sent, st, js, er, cs) :
        sent \in BOOLEAN, st \in Statuses, js \in BOOLEAN, er \in BOOLEAN, cs \in ChoiceLists }

InitChat ==
    /\ c_http \in HTTPExchanges /\ c_pc = "called" /\ c_ret = ChatResult(<<>>, "")
    /\ StreamIdle /\ ScenIdle /\ LoopIdle /\ PathIdle /\ ToolIdle /\ SrvIdle /\ FnIdle

\* Chat is called and returns
ChatCall ==
    /\ c_pc = "called"
    /\ c_ret' = Chat(c_http)
    /\ c_pc' = "returned"
    /\ UNCHANGED <<c_http, streamVars, cbLog, scenVars, loopVars, pathVars, toolVars,
                   srvVars, fnVars>>

NextChat == ChatCall

SpecChat == InitChat /\ [][NextChat]_vars

\* C19: Chat returns the content of the first choice when the status is 200 and
\* the body decodes, carries no error object and has a first choice with
\* content; it returns an error and no content when the status is not 200, the
\* body does not decode, carries an error object, or has no choices.
C19_ChatResult ==
    c_pc = "returned" =>
        /\ ((/\ c_http.sent /\ c_http.status = 200 /\ c_http.json /\ ~c_http.error
             /\ Len(c_http.choices) >= 1 /\ c_http.choices[1].Content # <<>>)
               => c_ret = ChatResult(c_http.choices[1].Content, ""))
        /\ ((\/ c_http.status # 200 \/ ~c_http.json \/ c_http.error
             \/ Len(c_http.choices) = 0)
               => c_ret.err # "" /\ c_ret.content = <<>>)

\* a good response with two choices of different content
C19_Witness ==
    /\ c_pc = "returned" /\ c_ret.err = ""
    /\ Len(c_http.choices) = 2
    /\ c_http.choices[1].Content # c_http.choices[2].Content
    /\ c_http.choices[2].Content # <<>>
    /\ c_ret.content = c_http.choices[1].Content

\* ------------------------------------ the model server (pkg/server, main)
\* Two processes may answer at the base URL: an external server axon did not
\* start ("ext") and the one it spawned ("own"), which is "running" until it
\* answers ("ready") and "exited" afterwards.

\* Server.isRunning: some server answers the probe with a status below 500
isRunning == srv_ext \/ srv_own = "ready"

\* mutant: Start spawns without looking at the probe
ShouldSpawn_Always(running) == TRUE

\* Start: "if s.isRunning() { return nil }" before exec.Command
ShouldSpawn(running) == ~running

Signal(proc, sig) == [proc |-> proc, sig |-> sig]

\* Server.Stop: nothing without a started process; else SIGTERM to s.cmd.Process,
\* and SIGKILL when the signal fails or the process is still there after 5 s.
\* A process already waited for gets no signal.  forced: SIGKILL was needed.
StopSignals(cmd, forced) ==
    IF cmd # "proc" THEN {}
    ELSE IF forced THEN {Signal("own", "TERM"), Signal("own", "KILL")}
    ELSE {Signal("own", "TERM")}

\* the effect of Stop on the variables it touches
Stop(forced) ==
    /\ srv_signals' = srv_signals \cup StopSignals(srv_cmd, forced)
    /\ srv_cmd' = IF srv_cmd = "proc" THEN "waited" ELSE srv_cmd
    /\ srv_own' = IF srv_cmd = "proc" THEN "exited" ELSE srv_own

InitServer ==
    /\ srv_ext \in BOOLEAN /\ srv_auto \in BOOLEAN
    /\ srv_own = "none" /\ srv_cmd = "nil" /\ srv_set = FALSE
    /\ srv_pc = "check" /\ srv_found = FALSE /\ srv_signals = {} /\ srv_ticks = 0
    /\ srv_spawned = 0
    /\ StreamIdle /\ ScenIdle /\ LoopIdle /\ PathIdle /\ ToolIdle /\ ChatIdle /\ FnIdle

SrvOthers == <<streamVars, cbLog, scenVars, loopVars, pathVars, toolVars, chatVars, fnVars>>

\* somebody starts or stops a server of their own at the base URL
ExternalChanges ==
    /\ srv_pc # "exited"
    /\ srv_ext' = ~srv_ext
    /\ UNCHANGED <<srv_own, srv_cmd, srv_set, srv_pc, srv_found, srv_signals, srv_ticks,
                   srv_spawned, srv_auto, SrvOthers>>

\* the spawned server finishes loading and answers
OwnBecomesReady ==
    /\ srv_own = "running" /\ srv_pc # "exited"
    /\ srv_own' = "ready"
    /\ UNCHANGED <<srv_ext, srv_cmd, srv_set, srv_pc, srv_found, srv_signals, srv_ticks,
                   srv_spawned, srv_auto, SrvOthers>>

\* the spawned server dies by itself (the port is taken, the model is missing)
OwnDies ==
    /\ srv_own \in {"running", "ready"} /\ srv_pc # "exited"
    /\ srv_own' = "exited"
    /\ UNCHANGED <<srv_ext, srv_cmd, srv_set, srv_pc, srv_found, srv_signals, srv_ticks,
                   srv_spawned, srv_auto, SrvOthers>>

\* main: server.CheckRunning, then the three branches
MainCheck ==
    /\ srv_pc = "check"
    /\ IF isRunning
       THEN srv_found' = TRUE /\ srv_pc' = "chat" /\ srv_set' = FALSE
       ELSE IF srv_auto
       THEN srv_found' = srv_found /\ srv_pc' = "start" /\ srv_set' = TRUE
       ELSE srv_found' = srv_found /\ srv_pc' = "exited" /\ srv_set' = FALSE
    /\ UNCHANGED <<srv_ext, srv_own, srv_cmd, srv_signals, srv_ticks, srv_spawned,
                   srv_auto, SrvOthers>>

\* Server.Start up to cmd.Start(): spawnOk is whether the process could be started
StartServer ==
    /\ srv_pc = "start"
    /\ \E spawnOk \in BOOLEAN :
          IF ~ShouldSpawn(isRunning)
          THEN /\ srv_found' = TRUE /\ srv_pc' = "chat"
               /\ UNCHANGED <<srv_cmd, srv_own, srv_spawned>>
          ELSE IF spawnOk
          THEN /\ srv_cmd' = "proc" /\ srv_own' = "running"
               /\ srv_spawned' = srv_spawned + 1
               /\ srv_pc' = "wait"
               /\ srv_found' = (srv_found \/ isRunning)
          ELSE /\ srv_cmd' = "noproc" /\ srv_pc' = "exited"
               /\ srv_found' = (srv_found \/ isRunning)
               /\ UNCHANGED <<srv_own, srv_spawned>>
    /\ UNCHANGED <<srv_ext, srv_set, srv_signals, srv_ticks, srv_auto, SrvOthers>>

\* mutant: a tick ends the wait whatever the probe finds
WaitTick_Blind ==
    /\ srv_pc = "wait" /\ srv_ticks < MaxTicks
    /\ srv_pc' = "chat" /\ srv_ticks' = srv_ticks
    /\ UNCHANGED <<srv_ext, srv_own, srv_cmd, srv_set, srv_found, srv_signals,
                   srv_spawned, srv_auto, SrvOthers>>

\* waitForReady: one tick of the poll
WaitTick ==
    /\ srv_pc = "wait" /\ srv_ticks < MaxTicks
    /\ IF isRunning THEN srv_pc' = "chat" /\ srv_ticks' = srv_ticks
       ELSE srv_pc' = "wait" /\ srv_ticks' = srv_ticks + 1
    /\ UNCHANGED <<srv_ext, srv_own, srv_cmd, srv_set, srv_found, srv_signals,
                   srv_spawned, srv_auto, SrvOthers>>

\* waitForReady times out: Start stops the process and main exits
WaitTimeout ==
    /\ srv_pc = "wait" /\ srv_ticks = MaxTicks
    /\ \E forced \in BOOLEAN : Stop(forced)
    /\ srv_pc' = "exited"
    /\ UNCHANGED <<srv_ext, srv_set, srv_found, srv_ticks, srv_spawned, srv_auto, SrvOthers>>

\* startInteractiveMode: the chat ends, "if srv != nil { srv.Stop() }"; on an
\* error of the chat the process exits, else main returns through its defer
ChatEnds ==
    /\ srv_pc = "chat"
    /\ IF srv_set THEN \E forced \in BOOLEAN : Stop(forced)
       ELSE UNCHANGED <<srv_signals, srv_cmd, srv_own>>
    /\ \E failed \in BOOLEAN : srv_pc' = IF failed THEN "exited" ELSE "defer"
    /\ UNCHANGED <<srv_ext, srv_set, srv_found, srv_ticks, srv_spawned, srv_auto, SrvOthers>>

\* main's deferred function, registered after a successful Start
MainDefer ==
    /\ srv_pc = "defer"
    /\ IF srv_set THEN \E forced \in BOOLEAN : Stop(forced)
       ELSE UNCHANGED <<srv_signals, srv_cmd, srv_own>>
    /\ srv_pc' = "exited"
    /\ UNCHANGED <<srv_ext, srv_set, srv_found, srv_ticks, srv_spawned, srv_auto, SrvOthers>>

\* SetupSignalHandling's goroutine: SIGINT or SIGTERM arrives, Stop, os.Exit(0)
Interrupt ==
    /\ srv_set /\ srv_pc \in {"start", "wait", "chat", "defer"}
    /\ \E forced \in BOOLEAN : Stop(forced)
    /\ srv_pc' = "exited"
    /\ UNCHANGED <<srv_ext, srv_set, srv_found, srv_ticks, srv_spawned, srv_auto, SrvOthers>>

NextServer ==
    \/ ExternalChanges \/ OwnBecomesReady \/ OwnDies
    \/ MainCheck \/ StartServer \/ WaitTick \/ WaitTimeout \/ ChatEnds \/ MainDefer
    \/ Interrupt

SpecServer == InitServer /\ [][NextServer]_vars

\* C20: axon never stops a server it did not start: once a probe made before
\* any spawn has found a server responding, no process is spawned and no signal
\* is ever sent; and any signal sent goes to the process axon spawned.
C20_OnlyOwnServerStopped ==
    /\ (srv_found => srv_spawned = 0 /\ srv_signals = {} /\ srv_cmd = "nil")
    /\ (srv_spawned = 0 => srv_signals = {})
    /\ \A sg \in srv_signals : sg.proc = "own"

\* the external server was found, the chat has ended and axon has exited
C20_Witness ==
    /\ srv_found /\ srv_ext /\ srv_pc = "exited" /\ srv_set

\* a step of the program in which Start's wait for the server ends
WaitSucceeds == srv_pc = "wait" /\ srv_pc' = "chat"
WaitFails == srv_pc = "wait" /\ srv_pc' = "exited"

\* C34: after the spawn Start polls: a tick whose probe fails keeps it waiting,
\* it returns success only at a tick whose probe succeeds, and when it gives
\* up the spawned process is stopped and the program exits: nothing is
\* spawned a second time.
C34_StartPollsThenGivesUp ==
    /\ [](srv_spawned <= 1)
    /\ [](srv_pc = "wait" => srv_cmd = "proc" /\ srv_spawned = 1)
    /\ [][WaitSucceeds => isRunning]_vars
    /\ [][(srv_pc = "wait" /\ srv_ticks' = srv_ticks + 1) => ~isRunning /\ srv_pc' = "wait"]_vars
    /\ [][WaitFails => /\ Signal("own", "TERM") \in srv_signals'
                       /\ srv_own' = "exited" /\ srv_cmd' = "waited"]_vars
    /\ [][srv_pc = "exited" => srv_pc' = "exited" /\ srv_spawned' = srv_spawned]_vars

\* no probe succeeded before the deadline: the process was stopped, axon exited
C34_Witness ==
    /\ srv_pc = "exited" /\ srv_ticks = MaxTicks /\ srv_spawned = 1
    /\ Signal("own", "TERM") \in srv_signals /\ srv_own = "exited"
    /\ ~srv_found /\ ~srv_ext

\* ------------------------------------------- configuration (package project)
\* A value that may be missing: an environment variable that is or is not set,
\* a key a YAML document does or does not have.
None == [has |-> FALSE, v |-> ""]
Some(v) == [has |-> TRUE, v |-> v]

\* os.Getenv: the value, "" when the variable is not set
Getenv(env, name) == IF env[name].has THEN env[name].v ELSE ""

\* cfg := &Config{} with the defaults LoadConfig sets (the LLM and context part)
Config(baseURL, model, temperature, ignore) ==
    [BaseURL |-> baseURL, Model |-> model, Temperature |-> temperature, Ignore |-> ignore]

DefaultBaseURL == "http://127.0.0.1:8080"
DefaultModel == "qwen2.5-coder-3b"
DefaultTemperature == "0.15"
DefaultConfig == Config(DefaultBaseURL, DefaultModel, DefaultTemperature, <<>>)
DefaultIgnore == <<"vendor/", "node_modules/", "storage/", ".git/">>

\* yaml.Unmarshal(data, cfg): a key of the document replaces the field, a field
\* without a key keeps what it holds
Unmarshal(doc, cfg) ==
    Config(IF doc.base_url.has THEN doc.base_url.v ELSE cfg.BaseURL,
           IF doc.model.has THEN doc.model.v ELSE cfg.Model,
           IF doc.temperature.has THEN doc.temperature.v ELSE cfg.Temperature,
           IF doc.ignore.has THEN doc.ignore.v ELSE cfg.Ignore)

\* a configuration file: os.ReadFile fails ("absent"), it does not parse
\* ("malformed"), or it parses to a document
ConfigFile(state, doc) == [state |-> state, doc |-> doc]

Loaded(cfg, err) == [cfg |-> cfg, err |-> err]

\* .axon.yml is tried first, .axon.yaml only when .axon.yml cannot be read
LoadFiles(yml, yaml, cfg) ==
    IF yml.state # "absent"
    THEN IF yml.state = "malformed" THEN Loaded(cfg, "parse_yml")
         ELSE Loaded(Unmarshal(yml.doc, cfg), "")
    ELSE IF yaml.state # "absent"
    THEN IF yaml.state = "malformed" THEN Loaded(cfg, "parse_yaml")
         ELSE Loaded(Unmarshal(yaml.doc, cfg), "")
    ELSE Loaded(cfg, "")

\* mutant: the environment never overrides
OverrideString_Never(cur, value) == cur

\* if v := os.Getenv(...); v != "" { field = v }
OverrideString(cur, value) == IF value # "" THEN value ELSE cur

\* the numbers a temperature may be written as
Numbers == {"0.5", "0.7"}

\* fmt.Sscanf(tempStr, "%f", &temp) on a text given as tokens: it succeeds when
\* the text starts with a number, whatever follows
Sscanf(str) ==
    IF str # <<>> /\ Head(str) \in Numbers THEN [ok |-> TRUE, v |-> Head(str)]
    ELSE [ok |-> FALSE, v |-> ""]

OverrideTemperature(cur, tempStr) ==
    IF tempStr # <<>> /\ Sscanf(tempStr).ok THEN Sscanf(tempStr).v ELSE cur

\* the environment overrides, then the default ignore list
ApplyEnv(cfg, base, model, tempStr) ==
    Config(OverrideString(cfg.BaseURL, base), OverrideString(cfg.Model, model),
           OverrideTemperature(cfg.Temperature, tempStr),
           IF Len(cfg.Ignore) = 0 THEN DefaultIgnore ELSE cfg.Ignore)

LoadConfig_Loaded(l, env) ==
    IF l.err # "" THEN l
    ELSE Loaded(ApplyEnv(l.cfg, Getenv(env, "AXON_LLM_BASE_URL"),
                         Getenv(env, "AXON_LLM_MODEL"),
                         IF env["AXON_LLM_TEMPERATURE"].has
                         THEN env["AXON_LLM_TEMPERATURE"].v ELSE <<>>), "")

\* project.LoadConfig
LoadConfig(yml, yaml, env) == LoadConfig_Loaded(LoadFiles(yml, yaml, DefaultConfig), env)

\* a YAML document with the given keys
Doc(base, model, temp, ignore) ==
    [base_url |-> base, model |-> model, temperature |-> temp, ignore |-> ignore]

\* .axon.yml: any subset of the keys, an empty string and an empty list included
YmlDocs ==
    { Doc(b, m, t, i) :
        b \in {None, Some("http://yml")}, m \in {None, Some("yml-model"), Some("")},
        t \in {None, Some("0.5")}, i \in {None, Some(<<>>), Some(<<"test/", "temp/">>)} }

\* .axon.yaml: every key, or none
YamlDocs ==
    { Doc(None, None, None, None),
      Doc(Some("http://yaml"), Some("yaml-model"), Some("0.7"), Some(<<"yaml/">>)) }

NoDoc == Doc(None, None, None, None)

Files(docs) ==
    { ConfigFile("absent", NoDoc), ConfigFile("malformed", NoDoc) }
    \cup { ConfigFile("parsed", d) : d \in docs }

\* the environment: each variable unset, set to the empty string, or set to a
\* value; the temperature also to text that is not a number
Environments ==
    { [n \in {"AXON_LLM_BASE_URL", "AXON_LLM_MODEL", "AXON_LLM_TEMPERATURE"} |->
          IF n = "AXON_LLM_BASE_URL" THEN b ELSE IF n = "AXON_LLM_MODEL" THEN m ELSE t] :
        b \in {None, Some(""), Some("http://env")},
        m \in {None, Some(""), Some("env-model")},
        t \in {None, Some(<<>>), Some(<<"0.7">>), Some(<<"x">>), Some(<<"0.7", "x">>)} }

OthersIdle ==
    /\ StreamIdle /\ ScenIdle /\ LoopIdle /\ PathIdle /\ ToolIdle /\ ChatIdle /\ SrvIdle

fnOthers == <<streamVars, cbLog, scenVars, loopVars, pathVars, toolVars, chatVars, srvVars>>

InitConfig ==
    /\ fn_call \in { [yml |-> a, yaml |-> b, env |-> e] :
                       a \in Files(YmlDocs), b \in Files(YamlDocs), e \in Environments }
    /\ fn_local = <<>> /\ fn_pc = "called" /\ fn_ret = <<>>
    /\ OthersIdle

\* LoadConfig(projectRoot) is called
CallLoadConfig ==
    /\ fn_pc = "called"
    /\ fn_ret' = LoadConfig(fn_call.yml, fn_call.yaml, fn_call.env)
    /\ fn_pc' = "returned"
    /\ UNCHANGED <<fn_call, fn_local, fnOthers>>

NextConfig == CallLoadConfig

SpecConfig == InitConfig /\ [][NextConfig]_vars

\* the document LoadConfig reads: .axon.yml's, .axon.yaml's when .axon.yml is
\* absent, none when both are
DocInUse ==
    IF fn_call.yml.state # "absent" THEN fn_call.yml.doc
    ELSE IF fn_call.yaml.state # "absent" THEN fn_call.yaml.doc
    ELSE NoDoc

\* environment first, then the document, then the default
Precedence(envValue, envWins, docValue, default) ==
    IF envWins THEN envValue ELSE IF docValue.has THEN docValue.v ELSE default

IgnoreFallback ==
    fn_ret.cfg.Ignore = IF DocInUse.ignore.has /\ DocInUse.ignore.v # <<>>
                        THEN DocInUse.ignore.v ELSE DefaultIgnore

TemperatureByPrecedence ==
    LET t == fn_call.env["AXON_LLM_TEMPERATURE"]
    IN  fn_ret.cfg.Temperature =
            Precedence(IF t.has /\ t.v # <<>> THEN Head(t.v) ELSE "",
                       t.has /\ t.v # <<>> /\ Head(t.v) \in Numbers,
                       DocInUse.temperature, DefaultTemperature)

MarkerKinds == {"none", "gitdir", "gitfile", "yml", "yaml"}

\* the directories of the disk that may hold a marker
MarkedDirs == { <<"/">>, <<"/", "w">>, <<"/", "w", "/", "w">> }

MarkerAt(marks, dir) == IF dir \in MarkedDirs THEN marks[dir] ELSE "none"

\* mutant: any .git entry counts
IsProjectRoot_AnyGit(marks, dir) ==
    MarkerAt(marks, dir) \in {"gitdir", "gitfile", "yml", "yaml"}

\* the three os.Stat checks of one pass of the loop
IsProjectRoot(marks, dir) == MarkerAt(marks, dir) \in {"gitdir", "yml", "yaml"}

\* directories FindProjectRoot is started from: relative, absolute, unclean,
\* below the marked directories
StartDirs ==
    { <<"w">>, <<".">>, <<"/">>, <<"/", "w", "/", "w">>, <<"w", "/", "w", "/", "w">>,
      <<"w", "/", ".", "/">>, <<"/", "w", "/", ".", ".", "/", "w", "/", "w">>,
      <<".", ".">> }

InitRoot ==
    /\ fn_call \in { [startDir |-> d, marks |-> m] :
                       d \in StartDirs, m \in [MarkedDirs -> MarkerKinds] }
    /\ fn_local = <<>> /\ fn_pc = "called" /\ fn_ret = <<>>
    /\ OthersIdle

\* FindProjectRoot(startDir) up to the loop: absPath, dir := absPath
EnterFindProjectRoot ==
    /\ fn_pc = "called"
    /\ fn_local' = [absPath |-> Abs(fn_call.startDir), dir |-> Abs(fn_call.startDir)]
    /\ fn_pc' = "loop"
    /\ UNCHANGED <<fn_call, fn_ret, fnOthers>>

\* one pass of the loop: the directory is returned when it holds a marker;
\* otherwise the loop moves to the parent, and at the filesystem root it
\* breaks and absPath is returned
FindProjectRootPass ==
    /\ fn_pc = "loop"
    /\ IF IsProjectRoot(fn_call.marks, fn_local.dir)
       THEN /\ fn_ret' = [root |-> fn_local.dir, err |-> ""]
            /\ fn_pc' = "returned"
            /\ UNCHANGED fn_local
       ELSE IF Dir(fn_local.dir) = fn_local.dir
       THEN /\ fn_ret' = [root |-> fn_local.absPath, err |-> ""]
            /\ fn_pc' = "returned"
            /\ UNCHANGED fn_local
       ELSE /\ fn_local' = [fn_local EXCEPT !.dir = Dir(fn_local.dir)]
            /\ UNCHANGED <<fn_ret, fn_pc>>
    /\ UNCHANGED <<fn_call, fnOthers>>

NextRoot == EnterFindProjectRoot \/ FindProjectRootPass

\* the function runs to its end once called
SpecRoot == InitRoot /\ [][NextRoot]_vars /\ WF_vars(NextRoot)

\* the directories from the start directory up to the filesystem root, by the
\* number of their elements
AncestorOf(path, k) == <<"/">> \o JoinElems(SubSeq(Split(path), 1, k))
Depths(path) == 0..Len(Split(path))

\* a directory with .git or a file .axon.yml/.axon.yaml
Marked(dir) == MarkerAt(fn_call.marks, dir) \in {"gitdir", "yml", "yaml"}

NearestMarked(path) ==
    LET ks == { k \in Depths(path) : Marked(AncestorOf(path, k)) }
    IN  IF ks = {} THEN path
        ELSE AncestorOf(path, CHOOSE k \in ks : \A j \in ks : j <= k)

C22_RootFound ==
    fn_pc = "returned" =>
        /\ fn_ret.err = ""
        /\ fn_ret.root = NearestMarked(Abs(fn_call.startDir))

\* C22: FindProjectRoot terminates, and returns the nearest directory from the
\* start directory up to the filesystem root that holds a .git directory or an
\* .axon.yml/.axon.yaml file, the absolute start directory when there is none.
C22_NearestProjectRoot == []C22_RootFound /\ <>(fn_pc = "returned")

\* started two levels below a directory with .axon.yml, under a directory
\* whose .git is a regular file; the filesystem root is marked too
C22_Witness ==
    /\ fn_pc = "returned"
    /\ fn_call.startDir = <<"w", "/", "w", "/", "w">>
    /\ fn_call.marks[<<"/", "w", "/", "w">>] = "gitfile"
    /\ fn_call.marks[<<"/", "w">>] = "yml"
    /\ fn_call.marks[<<"/">>] = "gitdir"
    /\ fn_ret.root = <<"/", "w">>

\* ------------------------------------------------ line ranges (pkg/fsctx)
\* The text of a file is a sequence of characters, NL the newline.
NL == "\n"

\* strings.Split(s, "\n"): the pieces between the separators, empty ones kept
RECURSIVE SplitLinesFrom(_, _, _)
SplitLinesFrom(str, cur, acc) ==
    IF str = <<>> THEN Append(acc, cur)
    ELSE IF Head(str) = NL THEN SplitLinesFrom(Tail(str), <<>>, Append(acc, cur))
    ELSE SplitLinesFrom(Tail(str), Append(cur, Head(str)), acc)

SplitLines(str) == SplitLinesFrom(str, <<>>, <<>>)

\* strings.Join(lines, "\n")
RECURSIVE JoinLines(_)
JoinLines(lines) ==
    IF lines = <<>> THEN <<>>
    ELSE IF Len(lines) = 1 THEN lines[1]
    ELSE lines[1] \o <<NL>> \o JoinLines(Tail(lines))

RangeResult(content, err) == [content |-> content, err |-> err]

\* lines[lo:hi]: a slice expression out of range panics
Slice(lines, lo, hi) ==
    IF lo < 0 \/ hi > Len(lines) \/ lo > hi THEN RangeResult(<<>>, "panic")
    ELSE RangeResult(JoinLines(SubSeq(lines, lo + 1, hi)), "")

Max(a, b) == IF a > b THEN a ELSE b
Min(a, b) == IF a < b THEN a ELSE b

\* ReadFileRange once the file is read: the clamping, the check, the slice
SelectLines(lines, startLine, endLine) ==
    IF Max(startLine, 1) > Min(endLine, Len(lines)) THEN RangeResult(<<>>, "invalid_range")
    ELSE Slice(lines, Max(startLine, 1) - 1, Min(endLine, Len(lines)))

ReadFileRange_Resolved(r, file, startLine, endLine) ==
    IF r.err # "" THEN RangeResult(<<>>, "invalid_path")
    ELSE IF ~file.exists THEN RangeResult(<<>>, "read_file")
    ELSE SelectLines(SplitLines(file.data), startLine, endLine)

\* fsctx.ReadFileRange; file is what os.ReadFile finds at the resolved path
ReadFileRange(projectRoot, filePath, file, startLine, endLine) ==
    ReadFileRange_Resolved(ResolvePath(projectRoot, filePath), file, startLine, endLine)

FileChars == {"a", "b", NL}
FileTexts == UNION { [1..n -> FileChars] : n \in 0..MaxFileLen }
LineNumbers == -1..(MaxFileLen + 2)

InitRange ==
    /\ fn_call \in
          { [path |-> <<"w">>, file |-> [exists |-> TRUE, data |-> d],
             startLine |-> a, endLine |-> b] :
               d \in FileTexts, a \in LineNumbers, b \in LineNumbers }
          \cup { [path |-> p, file |-> f, startLine |-> 1, endLine |-> 1] :
                   p \in { <<"w">>, <<".", ".", "/", "w">> },
                   f \in { [exists |-> FALSE, data |-> <<>>] } }
    /\ fn_local = <<>> /\ fn_pc = "called" /\ fn_ret = <<>>
    /\ OthersIdle

\* ReadFileRange(projectRoot, filePath, startLine, endLine) is called
CallReadFileRange ==
    /\ fn_pc = "called"
    /\ fn_ret' = ReadFileRange(ProjectRoot, fn_call.path, fn_call.file,
                               fn_call.startLine, fn_call.endLine)
    /\ fn_pc' = "returned"
    /\ UNCHANGED <<fn_call, fn_local, fnOthers>>

NextRange == CallReadFileRange

SpecRange == InitRange /\ [][NextRange]_vars

\* the lines of a text: each ends with a newline, except that the last one may
\* lack it
TextLines(data) ==
    IF data = <<>> THEN <<>>
    ELSE IF Last(data) = NL THEN SplitLines(Front(data))
    ELSE SplitLines(data)

\* C23: on a file of n lines, start is clamped up to 1 and end down to n; a
\* clamped start after the clamped end is an error, otherwise exactly the lines
\* start..end are returned joined by newlines, and no index is out of range.
C23_ClampedLineRange ==
    (fn_pc = "returned" /\ fn_call.file.exists) =>
        LET lines == TextLines(fn_call.file.data)
            first == Max(fn_call.startLine, 1)
            last  == Min(fn_call.endLine, Len(lines))
        IN  /\ fn_ret.err # "panic"
            /\ IF first > last THEN fn_ret.err = "invalid_range"
               ELSE /\ fn_ret.err = ""
                    /\ fn_ret.content = JoinLines(SubSeq(lines, first, last))

\* ------------------------------------------ ignore patterns (package project)
IgnoreChars == {"v", "x", "/"}
IgnorePaths == UNION { [1..n -> IgnoreChars] : n \in 0..MaxPathLen }

\* pattern lists: a directory, with blanks around it, blank patterns, a glob
IgnoreLists ==
    { << <<"v", "/">> >>, << <<" ", "v", "/", " ">> >>, << <<" ">> >>, << <<>> >>,
      << <<"*", "x">> >>,
      << <<" ">>, <<"v", "/">> >>, << <<"x", "/">>, <<"v", "/">> >>, << <<>>, <<" ">> >>,
      <<>> }

InitIgnore ==
    /\ fn_call \in { [path |-> p, ignorePatterns |-> l] : p \in IgnorePaths, l \in IgnoreLists }
    /\ fn_local = <<>> /\ fn_pc = "called" /\ fn_ret = <<>>
    /\ OthersIdle

\* ShouldIgnore(path, ignorePatterns) is called
CallShouldIgnore ==
    /\ fn_pc = "called"
    /\ fn_ret' = ShouldIgnore(fn_call.path, fn_call.ignorePatterns)
    /\ fn_pc' = "returned"
    /\ UNCHANGED <<fn_call, fn_local, fnOthers>>

NextIgnore == CallShouldIgnore

SpecIgnore == InitIgnore /\ [][NextIgnore]_vars

\* the text occurs in the path at the start of one of its elements
OccursAtElement(path, text) ==
    \E i \in 1..(Len(path) - Len(text) + 1) :
        /\ SubSeq(path, i, i + Len(text) - 1) = text
        /\ (i = 1 \/ path[i - 1] = "/")

\* the path lies under a directory the pattern names
UnderNamedDirectory(path, pattern) ==
    /\ pattern # <<>> /\ Last(pattern) = "/" /\ Split(pattern) # <<>>
    /\ OccursAtElement(path, pattern)
    /\ Len(path) > Len(pattern)

\* the pattern matches the path: as a prefix, as a glob on the last element,
\* or as a run of whole elements
Matches(path, pattern) ==
    /\ pattern # <<>>
    /\ \/ HasPrefix(path, pattern)
       \/ GlobMatch(pattern, Base(path))
       \/ OccursAtElement(path, pattern)

TrimmedPatterns == { TrimSpace(fn_call.ignorePatterns[i]) : i \in 1..Len(fn_call.ignorePatterns) }

\* C24: ShouldIgnore is true for every path under a directory that a pattern
\* names, false for every path that no pattern matches, and blank patterns
\* never match.
C24_IgnoreMatchesDirectories ==
    fn_pc = "returned" =>
        /\ (\E p \in TrimmedPatterns : UnderNamedDirectory(fn_call.path, p)) => fn_ret = TRUE
        /\ (\A p \in TrimmedPatterns : ~Matches(fn_call.path, p)) => fn_ret = FALSE
        /\ (TrimmedPatterns \subseteq {<<>>}) => fn_ret = FALSE

\* ------------------------------------- a round whose only call has no name
\* the fragments of a stream's deltas, in order
RECURSIVE FragmentsOf(_)
FragmentsOf(evs) ==
    IF evs = <<>> THEN <<>> ELSE Head(evs).frags \o FragmentsOf(Tail(evs))

RECURSIVE TextOf(_)
TextOf(evs) == IF evs = <<>> THEN <<>> ELSE Head(evs).content \o TextOf(Tail(evs))

\* a stream that was read to its end, whose fragments all belong to one call
\* that never gets a name, and whose last delta says "tool_calls"
OnlyCallNameless(stream) ==
    /\ stream.status = "200" /\ stream.end # "readerr"
    /\ FirstFailure(stream.events) = 0
    /\ LET fs == FragmentsOf(stream.events)
       IN  /\ fs # <<>>
           /\ \A i \in 1..Len(fs) : fs[i].name = "" /\ fs[i].index = fs[1].index
    /\ stream.events[Len(stream.events)].finish = "tool_calls"

\* C25: when the only tool call of a streamed round has no name when
\* "tool_calls" arrives, the call is filtered out, the round returns no tool
\* call, and the loop ends the turn with the accumulated text: no tool is
\* invoked and the model is not called again.
C25_NamelessCallEndsTurn ==
    (variant = "stream" /\ OnlyCallNameless(lastStream)) =>
        /\ reply = Returned(TextOf(lastStream.events), <<>>, "")
        /\ result = LoopResult(TextOf(lastStream.events), "", <<>>)
        /\ execLog = <<>>
        /\ pc \in {"return", "idle"}
        /\ messages = Append(lastSent, AssistantMessage(TextOf(lastStream.events), <<>>))

\* the round had text and a call with an id but no name, and the turn ended
\* with that text
C25_Witness ==
    /\ variant = "stream" /\ OnlyCallNameless(lastStream)
    /\ FragmentsOf(lastStream.events)[1].id # ""
    /\ pc = "idle" /\ result.text = <<"a">> /\ turnCalls = 1

\* --------------------------- one logical call and deltas after "tool_calls"
\* As in the one-call scenario, the call is introduced with its id and index
\* and later fragments address it by its index; here every delta also carries
\* a finish reason, and once "tool_calls" was sent the deltas that follow keep
\* it.  The log records each fragment with the finish reason of its delta.
Sent(f, fr) ==
    [hasIndex |-> f.hasIndex, index |-> f.index, id |-> f.id, type |-> f.type,
     name |-> f.name, args |-> f.args, finish |-> fr]

FeedDelta(f, fr) ==
    /\ Len(fragLog) < MaxFrags
    /\ ReadDelta(DeltaEvent(<<>>, <<f>>, fr, TRUE))
    /\ fragLog' = Append(fragLog, Sent(f, fr))
    /\ UNCHANGED <<call, loopVars, extVars>>

\* deltas up to and including the first that says "tool_calls"
FeedOpen ==
    /\ finishReason # "tool_calls"
    /\ \E f \in (IF fragLog = <<>> THEN HeaderFragments(call) ELSE ByIndexFragments(call)),
          fr \in {"", "tool_calls"} : FeedDelta(f, fr)

\* deltas after it
FeedTrailing ==
    /\ finishReason = "tool_calls"
    /\ \E f \in ByIndexFragments(call) : FeedDelta(f, "tool_calls")

NextDrain == FeedOpen \/ FeedTrailing \/ StreamEnd

SpecDrain == InitOneCall /\ [][NextDrain]_vars

\* position of the first delta that said "tool_calls", 0 when none did
FirstToolCalls ==
    LET ks == { k \in 1..Len(fragLog) : fragLog[k].finish = "tool_calls" }
    IN  IF ks = {} THEN 0 ELSE CHOOSE k \in ks : \A j \in ks : k <= j

Named(from, to) == \E k \in from..to : fragLog[k].name # ""

\* the call had no name when "tool_calls" was first seen, and a later delta
\* brought the name
CompletedByTrailing ==
    /\ FirstToolCalls # 0
    /\ ~Named(1, FirstToolCalls)
    /\ Named(FirstToolCalls + 1, Len(fragLog))

\* C26: the deltas after finish_reason "tool_calls" are still read, and a call
\* that was incomplete when it was seen and is completed by them is in the
\* returned list with all the fields accumulated for it.
C26_TrailingDeltasComplete ==
    /\ nEvents = Len(fragLog)
    /\ (sstate = "returned" /\ ret.err = "" /\ CompletedByTrailing) =>
           \E i \in 1..Len(ret.calls) :
               /\ ret.calls[i].ID = call.id
               /\ ret.calls[i].Name = "read_file"
               /\ ret.calls[i].Arguments = ArgsOf(fragLog)

\* ------------------------------------------ any fragment against any list
\* Deltas of one fragment each, with any index, id, name and argument text and
\* with or without finish_reason "tool_calls".  The log holds one entry: the
\* fragment read last, the finish reason of its delta and the list it met.
\* a fragment names the call or carries argument text, as providers send them
AnyFragments ==
    { WireFragment(TRUE, i, id, TypeOf(name), name, <<>>) :
        i \in Indexes, id \in IDs, name \in Names }
    \cup { WireFragment(TRUE, i, id, "", "", <<"{">>) : i \in Indexes, id \in IDs }

Met(f, fr, tcs) == [frag |-> f, finish |-> fr, before |-> tcs]

InitFrags ==
    /\ fullResponse = <<>> /\ toolCalls = <<>> /\ finishReason = ""
    /\ sstate = "reading" /\ nEvents = 0 /\ ret = Returned(<<>>, <<>>, "")
    /\ latestFinish = "" /\ cbLog = <<>> /\ textLog = <<>>
    /\ ScenIdle /\ LoopIdle /\ ExtIdle

FeedAny ==
    \E f \in AnyFragments, fr \in {"", "tool_calls"} :
        /\ nEvents < MaxFrags
        /\ ReadDelta(DeltaEvent(<<>>, <<f>>, fr, TRUE))
        /\ fragLog' = <<Met(f, fr, toolCalls)>>
        /\ UNCHANGED <<call, loopVars, extVars>>

NextFrags == FeedAny

SpecFrags == InitFrags /\ [][NextFrags]_vars

\* the fragment read last as decoded, and the list it met
LastFragment == DecodeFragment(fragLog[1].frag)
ListBefore == fragLog[1].before

\* the list as the loop leaves it at the end of a delta whose fragment made it tcs
AfterDelta(tcs) ==
    IF fragLog[1].finish = "tool_calls"
    THEN SelectSeq(tcs, LAMBDA tc : tc.ID # "" /\ tc.Name # "")
    ELSE tcs

\* entry e after fragment d was merged into it
Kept(old, new) == IF old = "" THEN new ELSE old
MergedEntry(e, d) ==
    [Index |-> e.Index, ID |-> Kept(e.ID, d.ID), Type |-> Kept(e.Type, d.Type),
     Name |-> Kept(e.Name, d.Name), Arguments |-> e.Arguments \o d.Arguments]

\* the last fragment's index is a valid position whose entry carries that
\* index, and its id is the id of another entry
IndexAndIDDisagree ==
    /\ fragLog # <<>>
    /\ LastFragment.Index >= 0 /\ LastFragment.Index < Len(ListBefore)
    /\ ListBefore[LastFragment.Index + 1].Index = LastFragment.Index
    /\ LastFragment.ID # ""
    /\ \E j \in 1..Len(ListBefore) :
           j # LastFragment.Index + 1 /\ ListBefore[j].ID = LastFragment.ID

\* C27: a fragment whose index selects one entry and whose id selects another
\* is merged into the entry selected by the index; the other is left alone.
C27_IndexBeforeID ==
    IndexAndIDDisagree =>
        toolCalls = AfterDelta([ListBefore EXCEPT ![LastFragment.Index + 1] =
                                   MergedEntry(@, LastFragment)])

C27_Witness ==
    /\ IndexAndIDDisagree
    /\ LastFragment.Arguments # <<>>
    /\ fragLog[1].finish = ""
    /\ \E j \in 1..Len(toolCalls) :
           /\ j # LastFragment.Index + 1
           /\ toolCalls[j].ID = LastFragment.ID
           /\ toolCalls[LastFragment.Index + 1].ID # LastFragment.ID
           /\ toolCalls[LastFragment.Index + 1].Arguments # toolCalls[j].Arguments

\* entry b as a later state of entry a: the fields a had are the same, and the
\* arguments start with a's
StartsWith(long, short) ==
    Len(short) <= Len(long) /\ SubSeq(long, 1, Len(short)) = short

LaterStateOf(b, a) ==
    /\ a.ID # "" => b.ID = a.ID
    /\ a.Type # "" => b.Type = a.Type
    /\ a.Name # "" => b.Name = a.Name
    /\ StartsWith(b.Arguments, a.Arguments)

\* C28: in one streamed round a fragment never changes an id, type or name
\* that an entry of the list already has, and only appends to its arguments.
\* (A delta that says "tool_calls" may remove entries without id or name and
\* move the others up; the others are compared wherever they are.)
C28_FieldsSetOnce ==
    fragLog # <<>> =>
        \A p \in 1..Len(ListBefore) :
            IF fragLog[1].finish # "tool_calls"
            THEN p <= Len(toolCalls) /\ LaterStateOf(toolCalls[p], ListBefore[p])
            ELSE \/ ListBefore[p].ID = "" \/ ListBefore[p].Name = ""
                 \/ \E q \in 1..Len(toolCalls) : LaterStateOf(toolCalls[q], ListBefore[p])

\* the last fragment selects no entry: none by its index, none by its id
IntroducesCall ==
    /\ fragLog # <<>>
    /\ ~(/\ LastFragment.Index >= 0 /\ LastFragment.Index < Len(ListBefore)
         /\ ListBefore[LastFragment.Index + 1].Index = LastFragment.Index)
    /\ LastFragment.ID = "" \/ \A j \in 1..Len(ListBefore) : ListBefore[j].ID # LastFragment.ID

\* the slot of a new call: its index, or the next free one when it is negative
Slot == IF LastFragment.Index < 0 THEN Len(ListBefore) ELSE LastFragment.Index

Placeholder(i) == [Index |-> i, ID |-> "", Type |-> "", Name |-> "", Arguments |-> <<>>]

\* the list met, grown with placeholders up to the slot, the fragment in the slot
Placed ==
    [p \in 1..(IF Slot + 1 > Len(ListBefore) THEN Slot + 1 ELSE Len(ListBefore)) |->
        IF p = Slot + 1 THEN [LastFragment EXCEPT !.Index = Slot]
        ELSE IF p <= Len(ListBefore) THEN ListBefore[p]
        ELSE Placeholder(p - 1)]

PlacedAtSlot == IntroducesCall => toolCalls = AfterDelta(Placed)

\* the last fragment's index is the position of a placeholder
MeetsPlaceholder ==
    /\ fragLog # <<>>
    /\ LastFragment.Index >= 0 /\ LastFragment.Index < Len(ListBefore)
    /\ ListBefore[LastFragment.Index + 1] = Placeholder(LastFragment.Index)

MergedIntoPlaceholder ==
    MeetsPlaceholder =>
        toolCalls = AfterDelta([ListBefore EXCEPT ![LastFragment.Index + 1] =
                                   MergedEntry(@, LastFragment)])

IsCall(tc) == tc.ID # "" \/ tc.Name # ""

\* a call is introduced after one with a higher index: both are then at the
\* positions their indexes give
OutOfOrderInPlace ==
    (IntroducesCall /\ LastFragment.Index >= 0 /\ fragLog[1].finish # "tool_calls") =>
        \A p \in 1..Len(ListBefore) :
            (IsCall(ListBefore[p]) /\ ListBefore[p].Index > LastFragment.Index) =>
                /\ ListBefore[p].Index < Len(toolCalls)
                /\ LaterStateOf(toolCalls[ListBefore[p].Index + 1], ListBefore[p])
                /\ toolCalls[LastFragment.Index + 1].Index = LastFragment.Index

\* C29: a fragment that introduces a call is put at its index (a negative one
\* becomes the list's length) after the list is grown with placeholders that
\* carry their positions; a fragment for a placeholder's index is merged into
\* it; so calls introduced out of order are at the positions of their indexes.
C29_PlacementByIndex == PlacedAtSlot /\ MergedIntoPlaceholder /\ OutOfOrderInPlace

\* C37: a fragment that introduces a call replaces no entry that has an id or
\* a name: such entries are where they were after the delta, and when the
\* delta says "tool_calls" every complete one among them is still in the list.
C37_NewCallReplacesNoCall ==
    IntroducesCall =>
        \A p \in 1..Len(ListBefore) :
            IsCall(ListBefore[p]) =>
                IF fragLog[1].finish # "tool_calls"
                THEN p <= Len(toolCalls) /\ toolCalls[p] = ListBefore[p]
                ELSE Complete(ListBefore[p]) =>
                         \E q \in 1..Len(toolCalls) : toolCalls[q] = ListBefore[p]

\* C38: the list chatCompletionStream returns holds no two entries with the
\* same id.
C38_ReturnedIDsDistinct ==
    (sstate = "returned" /\ ret.err = "") =>
        \A i, j \in 1..Len(ret.calls) :
            ret.calls[i].ID = ret.calls[j].ID => i = j

\* --------------------------------------------- a body with "[DONE]" in it
\* chatCompletionStream is called on a response whose body holds deltas,
\* skipped lines and "[DONE]" payloads in any order.
BodyEvents ==
    { TextDelta(<<"a">>, ""), TextDelta(<<"b">>, "stop"), SkipEvent, DoneEvent,
      FragsDelta(<<Frag(0, "c1", "read_file", <<>>)>>, "tool_calls") }

Bodies == UNION { [1..n -> BodyEvents] : n \in 0..MaxEvents }

HasDone(evs) == \E k \in 1..Len(evs) : evs[k] = DoneEvent

InitDone ==
    /\ fn_call \in { Stream("200", evs, IF HasDone(evs) THEN "done" ELSE "eof") :
                       evs \in Bodies }
    /\ fn_local = <<>> /\ fn_pc = "called" /\ fn_ret = <<>>
    /\ OthersIdle

\* the call: the locals when the loop is left, the callback invocations made,
\* and what is returned
CallChatCompletionStream ==
    /\ fn_pc = "called"
    /\ fn_local' = RunEvents(StreamStart, fn_call.events)
    /\ fn_ret' = chatCompletionStream(fn_call)
    /\ fn_pc' = "returned"
    /\ UNCHANGED <<fn_call, fnOthers>>

NextDone == CallChatCompletionStream

SpecDone == InitDone /\ [][NextDone]_vars

\* the events in front of the first "[DONE]"
FirstDone(evs) == CHOOSE k \in 1..Len(evs) : evs[k] = DoneEvent /\ ~HasDone(SubSeq(evs, 1, k - 1))
BeforeDone(evs) == SubSeq(evs, 1, FirstDone(evs) - 1)

\* the text of a list of events, and the last finish reason among its deltas
RECURSIVE TextUpTo(_)
TextUpTo(evs) == IF evs = <<>> THEN <<>> ELSE Head(evs).content \o TextUpTo(Tail(evs))

Pieces(evs) == SelectSeq([k \in 1..Len(evs) |-> evs[k].content], LAMBDA c : c # <<>>)

Deltas(evs) == SelectSeq(evs, LAMBDA e : e.kind = "delta")

LastFinish(evs) == IF Deltas(evs) = <<>> THEN "" ELSE Deltas(evs)[Len(Deltas(evs))].finish

\* C30: "[DONE]" ends the stream: the text, the tool-call list, the finish
\* reason and the callback invocations are those of the events in front of it,
\* whatever follows it.
C30_DoneEndsStream ==
    (fn_pc = "returned" /\ HasDone(fn_call.events)) =>
        /\ fn_local.fullResponse = TextUpTo(BeforeDone(fn_call.events))
        /\ fn_local.callbacks = Pieces(BeforeDone(fn_call.events))
        /\ fn_local.finishReason = LastFinish(BeforeDone(fn_call.events))
        /\ fn_local.toolCalls =
               (IF \E k \in 1..Len(BeforeDone(fn_call.events)) :
                       BeforeDone(fn_call.events)[k].frags # <<>>
                THEN <<Call(0, "c1", "read_file", <<>>)>> ELSE <<>>)
        /\ fn_ret.text = fn_local.fullResponse
        /\ fn_ret.err = ""

\* "[DONE]" is followed by a text delta, a fragment and another finish reason
C30_Witness ==
    /\ fn_pc = "returned"
    /\ Len(fn_call.events) = 3
    /\ fn_call.events[1] = TextDelta(<<"a">>, "")
    /\ fn_call.events[2] = DoneEvent
    /\ fn_call.events[3].frags # <<>>
    /\ fn_ret = Returned(<<"a">>, <<>>, "")

\* ------------------------------------------------ skipped lines in a body
\* the events the loop reads: those in front of "[DONE]", all when there is none
EventsRead(evs) == IF HasDone(evs) THEN BeforeDone(evs) ELSE evs

WithoutSkips(evs) == SelectSeq(evs, LAMBDA e : e # SkipEvent)

HasSkip(evs) == \E k \in 1..Len(evs) : evs[k] = SkipEvent

\* C31: an event that does not parse or has no choices is skipped: the call
\* ends with the locals, the callback invocations and the result it has on the
\* same body without such events.
C31_SkippedEventsChangeNothing ==
    (fn_pc = "returned" /\ HasSkip(EventsRead(fn_call.events))) =>
        /\ fn_local = RunEvents(StreamStart, WithoutSkips(EventsRead(fn_call.events)))
        /\ fn_local.finishReason = LastFinish(EventsRead(fn_call.events))
        /\ fn_local.callbacks = Pieces(EventsRead(fn_call.events))
        /\ fn_ret = chatCompletionStream(
                        Stream("200", WithoutSkips(fn_call.events), fn_call.end))

\* a skipped line follows the delta that said "tool_calls": the call is returned
C31_Witness ==
    /\ fn_pc = "returned"
    /\ Len(fn_call.events) = 3
    /\ fn_call.events[1] = TextDelta(<<"a">>, "")
    /\ fn_call.events[2].frags # <<>>
    /\ fn_call.events[3] = SkipEvent
    /\ fn_ret = Returned(<<"a">>, <<Call(0, "c1", "read_file", <<>>)>>, "")

\* ----------------------------------- tools that read under a path (pkg/chat)
\* What a read-only tool returns, with the paths it handed to the operating
\* system or to an external command.
Access(err, used) == [err |-> err, used |-> used]

\* a call of a read-only tool; an empty path or pattern stands for an absent one
ReadCall(name, path, pattern) == [name |-> name, path |-> path, pattern |-> pattern]

\* Session.toolReadFile, through fsctx.ReadFile
toolReadFile_Resolved(disk, r) ==
    IF r.err # "" THEN Access("read_failed", {})
    ELSE Access(IF IsFile(Stat(disk, r.path)) THEN "" ELSE "read_failed", {r.path})

toolReadFile(c, disk) ==
    IF c.path = <<>> THEN Access("path_required", {})
    ELSE toolReadFile_Resolved(disk, ResolvePath(ProjectRoot, c.path))

\* Session.toolListDirectory: the path defaults to "", os.ReadDir
toolListDirectory_Resolved(disk, r) ==
    IF r.err # "" THEN Access("invalid_path", {})
    ELSE Access(IF Stat(disk, r.path) = "dir" THEN "" ELSE "read_directory", {r.path})

toolListDirectory(c, disk) ==
    toolListDirectory_Resolved(disk, ResolvePath(ProjectRoot, c.path))

\* the search tools: rg or grep run on the path, filepath.Walk started at it;
\* ran: the command or the walk succeeds
Searched(r, ran) ==
    IF r.err # "" THEN Access("invalid_path", {})
    ELSE Access(IF ran THEN "" ELSE "search_failed", {r.path})

\* Session.toolGrep and Session.toolFindFiles: without a path the root is searched
toolGrep(c, ran) ==
    IF c.pattern = "" THEN Access("pattern_required", {})
    ELSE IF c.path = <<>> THEN Access(IF ran THEN "" ELSE "search_failed", {ProjectRoot})
    ELSE Searched(ResolvePath(ProjectRoot, c.path), ran)

toolFindFiles(c, ran) ==
    IF c.pattern = "" THEN Access("pattern_required", {})
    ELSE IF c.path = <<>> THEN Access(IF ran THEN "" ELSE "search_failed", {ProjectRoot})
    ELSE Searched(ResolvePath(ProjectRoot, c.path), ran)

\* Session.toolGetFileInfo: os.Stat, then os.ReadFile
toolGetFileInfo_Resolved(disk, r) ==
    IF r.err # "" THEN Access("invalid_path", {})
    ELSE Access(IF Stat(disk, r.path) = "absent" THEN "does_not_exist" ELSE "", {r.path})

toolGetFileInfo(c, disk) ==
    IF c.path = <<>> THEN Access("path_required", {})
    ELSE toolGetFileInfo_Resolved(disk, ResolvePath(ProjectRoot, c.path))

\* Session.toolGitDiff: `git -C projectRoot diff path` with the path as given;
\* repo: projectRoot/.git exists; git refuses a path outside the work tree
toolGitDiff(c, repo, ran) ==
    IF ~repo THEN Access("not_a_git_repository", {})
    ELSE Access(IF ran /\ (c.path = <<>> \/ InsideRoot(c.path)) THEN "" ELSE "git_diff_failed",
                {c.path})

ReadTools == {"read_file", "list_directory", "grep", "find_files", "get_file_info",
              "git_diff"}

\* Session.ExecuteTool's switch, for these tools
DispatchReadTool(c, disk, repo, ran) ==
    CASE c.name = "read_file" -> toolReadFile(c, disk)
      [] c.name = "list_directory" -> toolListDirectory(c, disk)
      [] c.name = "grep" -> toolGrep(c, ran)
      [] c.name = "find_files" -> toolFindFiles(c, ran)
      [] c.name = "get_file_info" -> toolGetFileInfo(c, disk)
      [] c.name = "git_diff" -> toolGitDiff(c, repo, ran)
      [] OTHER -> Access("unknown_tool", {})

\* what is seen of one execution: the error, whether the user was prompted,
\* the disk afterwards, the paths used
Seen(err, asked, disk, used) == [err |-> err, asked |-> asked, disk |-> disk, used |-> used]

SeenOfRead(a, disk) == Seen(a.err, FALSE, disk, a.used)

\* the errors a mutating tool returns before it looks at the disk
BeforeAccess == {"path_required", "source_required", "destination_required",
                 "text_required", "invalid_path", "invalid_source", "invalid_destination", "unknown_tool"}

\* a mutating tool stats its targets once every path check has passed
SeenOfMutating(c, r) ==
    Seen(r.err, r.asked, r.disk,
         IF r.err \in BeforeAccess THEN {}
         ELSE { ResolvePath(ProjectRoot, p).path : p \in Targets(c) })

\* the tools with a required text argument (content; old_string and
\* new_string), checked after the path's presence and before its resolution
TextTools == {"write_file", "create_file", "update_file", "string_replace"}

DispatchMutatingTool(c, disk, stdin) ==
    IF c.name \in TextTools /\ c.path # <<>> /\ c.text = "absent"
    THEN ToolError(disk, "text_required")
    ELSE DispatchTool(c, disk, stdin)

ExecuteToolSeen(c, disk, stdin, repo, ran) ==
    IF c.name \in ReadTools THEN SeenOfRead(DispatchReadTool(c, disk, repo, ran), disk)
    ELSE SeenOfMutating(c, DispatchMutatingTool(c, disk, stdin))

\* the loops' handling of what the executor returned: the tool message appended
Executed(seen) ==
    [out |-> <<"result">>, err |-> IF seen.err = "" THEN <<>> ELSE <<seen.err>>]

Folded(c, seen) == ToolMessage(Call(0, "c1", c.name, ArgsGood), ToolResult(Executed(seen)))

\* a mutating call with its text argument given or absent
WithText(c, text) ==
    [name |-> c.name, path |-> c.path, dest |-> c.dest, old |-> c.old, text |-> text]

\* the paths asked for: those of the mutating tools' scenario, none, and an
\* absolute path outside the root
AccessPaths == ToolPaths \cup { <<>>, <<"/", "e">> }

AccessCalls ==
    { ReadCall(n, p, q) : n \in ReadTools, p \in AccessPaths, q \in {"", "p"} }
    \cup { WithText(ToolCallArgs(n, p, <<>>, "old"), t) :
              n \in OnePathTools, p \in AccessPaths, t \in {"new", "absent"} }
    \cup { WithText(ToolCallArgs(n, p, q, ""), "absent") :
              n \in TwoPathTools, p \in AccessPaths, q \in AccessPaths }
    \cup { WithText(ToolCallArgs("no_such_tool", <<"w">>, <<>>, ""), "absent") }

InitAccess ==
    /\ fn_call \in { [c |-> c, disk |-> d, stdin |-> i, repo |-> g, ran |-> k] :
                       c \in AccessCalls, d \in Disks,
                       i \in { [ok |-> TRUE, text |-> <<>>], [ok |-> FALSE, text |-> <<>>] },
                       g \in BOOLEAN, k \in BOOLEAN }
    /\ fn_local = <<>> /\ fn_pc = "called" /\ fn_ret = <<>>
    /\ OthersIdle

\* Session.ExecuteTool is called by a conversation loop, which appends the
\* tool message
CallExecuteTool ==
    /\ fn_pc = "called"
    /\ fn_ret' = ExecuteToolSeen(fn_call.c, fn_call.disk, fn_call.stdin, fn_call.repo,
                                 fn_call.ran)
    /\ fn_local' = Folded(fn_call.c,
                           ExecuteToolSeen(fn_call.c, fn_call.disk, fn_call.stdin,
                                           fn_call.repo, fn_call.ran))
    /\ fn_pc' = "returned"
    /\ UNCHANGED <<fn_call, fnOthers>>

NextAccess == CallExecuteTool

SpecAccess == InitAccess /\ [][NextAccess]_vars

\* the paths a call names
PathsOf(c) == IF c.name \in ReadTools THEN {c.path} ELSE Targets(c)

LeavesRoot(c) == \E p \in PathsOf(c) : p # <<>> /\ ~InsideRoot(p)

\* C32: a tool given a path that leads outside the project root returns an
\* error without prompting the user, without changing the disk and without
\* handing any path to the operating system or to a command.
C32_OutsidePathsUnused ==
    (fn_pc = "returned" /\ LeavesRoot(fn_call.c)) =>
        /\ fn_ret.err # ""
        /\ ~fn_ret.asked
        /\ fn_ret.disk = fn_call.disk
        /\ fn_ret.used = {}

\* the arguments the catalog declares as required, by the field that holds them
RequiredArgs(name) ==
    CASE name \in {"read_file", "get_file_info", "create_directory", "delete_file",
                   "delete_directory"} -> {"path"}
      [] name \in {"grep", "find_files"} -> {"pattern"}
      [] name \in TextTools -> {"path", "text"}
      [] name \in TwoPathTools -> {"path", "dest"}
      [] OTHER -> {}

Given(c, a) ==
    CASE a = "path" -> c.path # <<>>
      [] a = "dest" -> c.dest # <<>>
      [] a = "pattern" -> c.pattern # ""
      [] a = "text" -> c.text # "absent"

MissesArgument(c) == \E a \in RequiredArgs(c.name) : ~Given(c, a)

UnknownTool(c) == c.name \notin ReadTools \cup MutatingTools

StopCallers == {"chat", "defer", "handler"}

StopIdle == [pc |-> "idle", ret |-> "none", waiter |-> "none", late |-> FALSE, sent |-> {}]

\* Process.Signal / Process.Kill on a process already waited for: ErrProcessDone
SignalFails(cmd) == cmd = "waited"

\* where the program goes when the caller's Stop has returned
AfterStop(i) ==
    IF i = "chat" THEN {"defer", "exited"} ELSE {"exited"}

CallerTurn(i) ==
    IF i = "handler" THEN srv_set /\ srv_pc \in {"chat", "defer"}
    ELSE srv_pc = i

InitStop ==
    /\ srv_ext = FALSE /\ srv_auto = TRUE /\ srv_own \in {"running", "ready"}
    /\ srv_cmd = "proc" /\ srv_set = TRUE /\ srv_pc = "chat" /\ srv_found = FALSE
    /\ srv_signals = {} /\ srv_ticks = 0 /\ srv_spawned = 1
    /\ fn_call = <<>> /\ fn_pc = "Stop" /\ fn_ret = <<>>
    /\ fn_local = [i \in StopCallers |-> StopIdle]
    /\ StreamIdle /\ ScenIdle /\ LoopIdle /\ PathIdle /\ ToolIdle /\ ChatIdle

stopFrame == <<srv_ext, srv_set, srv_found, srv_ticks, srv_spawned, srv_auto, fn_call, fn_pc,
               fn_ret, streamVars, cbLog, scenVars, loopVars, pathVars, toolVars, chatVars>>

\* the spawned process ends, of itself or because of a signal
ProcExits ==
    /\ srv_pc # "exited" /\ srv_own \in {"running", "ready"}
    /\ srv_own' = "exited"
    /\ UNCHANGED <<srv_cmd, srv_pc, srv_signals, fn_local, stopFrame>>

\* mutant: the first signal is the kill
StopBegin_KillFirst(i) ==
    /\ srv_pc # "exited" /\ CallerTurn(i) /\ fn_local[i].pc = "idle"
    /\ srv_signals' = srv_signals \cup {Signal("own", "KILL")}
    /\ fn_local' = [fn_local EXCEPT ![i] =
                      [pc |-> "waiting", ret |-> "none", waiter |-> "blocked",
                       late |-> srv_own = "exited", sent |-> {"KILL"}]]
    /\ UNCHANGED <<srv_own, srv_cmd, srv_pc, stopFrame>>

\* Stop up to its select: SIGTERM, Kill if that fails, then the goroutine on Wait
StopBegin(i) ==
    /\ srv_pc # "exited" /\ CallerTurn(i) /\ fn_local[i].pc = "idle"
    /\ IF SignalFails(srv_cmd)
       THEN /\ fn_local' = [fn_local EXCEPT ![i] =
                              [pc |-> "returned", ret |-> "error", waiter |-> "none",
                               late |-> srv_own = "exited", sent |-> {}]]
            /\ srv_pc' \in AfterStop(i)
            /\ UNCHANGED srv_signals
       ELSE /\ srv_signals' = srv_signals \cup {Signal("own", "TERM")}
            /\ fn_local' = [fn_local EXCEPT ![i] =
                              [pc |-> "waiting", ret |-> "none", waiter |-> "blocked",
                               late |-> srv_own = "exited", sent |-> {"TERM"}]]
            /\ UNCHANGED srv_pc
    /\ UNCHANGED <<srv_own, srv_cmd, stopFrame>>

\* the goroutine's cmd.Wait returns once the process has ended
WaiterReturns(i) ==
    /\ srv_pc # "exited" /\ fn_local[i].waiter = "blocked" /\ srv_own = "exited"
    /\ srv_cmd' = "waited"
    /\ fn_local' = [fn_local EXCEPT ![i].waiter = "done"]
    /\ UNCHANGED <<srv_own, srv_pc, srv_signals, stopFrame>>

\* select: the wait has returned
StopDone(i) ==
    /\ srv_pc # "exited" /\ fn_local[i].pc = "waiting" /\ fn_local[i].waiter = "done"
    /\ fn_local' = [fn_local EXCEPT ![i].pc = "returned", ![i].ret = "nil"]
    /\ srv_pc' \in AfterStop(i)
    /\ UNCHANGED <<srv_own, srv_cmd, srv_signals, stopFrame>>

\* select: five seconds have passed and the wait has not returned
StopTimeout(i) ==
    /\ srv_pc # "exited" /\ fn_local[i].pc = "waiting" /\ fn_local[i].waiter = "blocked"
    /\ fn_local' = [fn_local EXCEPT ![i].pc = "kill"]
    /\ UNCHANGED <<srv_own, srv_cmd, srv_pc, srv_signals, stopFrame>>

\* the Kill after the timeout
StopKill(i) ==
    /\ srv_pc # "exited" /\ fn_local[i].pc = "kill"
    /\ IF SignalFails(srv_cmd)
       THEN /\ fn_local' = [fn_local EXCEPT ![i].pc = "returned", ![i].ret = "error"]
            /\ UNCHANGED srv_signals
       ELSE /\ srv_signals' = srv_signals \cup {Signal("own", "KILL")}
            /\ fn_local' = [fn_local EXCEPT ![i].pc = "returned", ![i].ret = "nil",
                                            ![i].sent = @ \cup {"KILL"}]
    /\ srv_pc' \in AfterStop(i)
    /\ UNCHANGED <<srv_own, srv_cmd, stopFrame>>

\* the steps of one call of Stop after its first
StopGoesOn(i) == StopDone(i) \/ StopTimeout(i) \/ StopKill(i)

NextStop ==
    \/ ProcExits
    \/ \E i \in StopCallers : StopBegin(i)
    \/ \E i \in StopCallers : WaiterReturns(i)
    \/ \E i \in StopCallers : StopDone(i)
    \/ \E i \in StopCallers : StopTimeout(i)
    \/ \E i \in StopCallers : StopKill(i)

\* a call of Stop is a goroutine the scheduler keeps running, and its timer fires
SpecStop == InitStop /\ [][NextStop]_vars /\ \A i \in StopCallers : WF_vars(StopGoesOn(i))

StopCalls == IF fn_pc = "Stop" THEN fn_local ELSE [i \in StopCallers |-> StopIdle]

KillSent == Signal("own", "KILL") \in srv_signals

C40_LateStopIsQuiet ==
    \A i \in StopCallers :
        StopCalls[i].late => StopCalls[i].ret # "error" /\ StopCalls[i].sent = {}

\* ------------------------------------------- the debug log (package logger)
\* fn_local is the package state: logEnabled, logFile, logFileMutex and what
\* has been written to the file; fn_pc is where the main goroutine stands.

MaxLogged == 3

LogKinds == {"request", "response", "tool"}

LoggerStart == [enabled |-> FALSE, file |-> "nil", mutex |-> "free", written |-> <<>>]

\* Logf returns at once when logging is off or no file is open
LogfSkips(l) == ~l.enabled \/ l.file = "nil"

\* logFileMutex.Lock() in Logf: sync.Mutex is not reentrant
LogfBlocks(l) == ~LogfSkips(l) /\ l.mutex = "held"

\* Logf that gets the mutex: write, Sync, deferred Unlock
Logf(l, msg) ==
    IF LogfSkips(l) THEN l ELSE [l EXCEPT !.written = Append(@, msg)]

InitLogger(l, env) ==
    IF ~env.debugLog THEN l
    ELSE IF env.openFails THEN [l EXCEPT !.enabled = TRUE]
    ELSE Logf([l EXCEPT !.enabled = TRUE, !.file = "open"], "started")

InitLog ==
    /\ fn_call \in [debugLog : BOOLEAN, openFails : BOOLEAN]
    /\ fn_local = LoggerStart /\ fn_pc = "init" /\ fn_ret = <<>>
    /\ StreamIdle /\ ScenIdle /\ LoopIdle /\ PathIdle /\ ToolIdle /\ ChatIdle /\ SrvIdle

\* main: logger.InitLogger(projectRoot); a failure is only a warning
CallInitLogger ==
    /\ fn_pc = "init"
    /\ fn_local' = InitLogger(fn_local, fn_call)
    /\ fn_pc' = "run"
    /\ UNCHANGED <<fn_call, fn_ret, fnOthers>>

\* the session logs a request, a response or a tool call
CallLogf ==
    /\ fn_pc = "run" /\ Len(fn_local.written) < MaxLogged + 1
    /\ ~LogfBlocks(fn_local)
    /\ \E k \in LogKinds : fn_local' = Logf(fn_local, k)
    /\ UNCHANGED <<fn_call, fn_pc, fn_ret, fnOthers>>

\* main returns: the deferred CloseLogger tests logFile and takes the mutex
CloseLoggerBegins ==
    /\ fn_pc = "run"
    /\ IF fn_local.file = "nil"
       THEN fn_pc' = "returned" /\ UNCHANGED fn_local
       ELSE fn_pc' = "closing" /\ fn_local' = [fn_local EXCEPT !.mutex = "held"]
    /\ UNCHANGED <<fn_call, fn_ret, fnOthers>>

\* CloseLogger, holding the mutex, calls Logf for the end marker, then closes
CloseLoggerLogs ==
    /\ fn_pc = "closing"
    /\ IF LogfBlocks(fn_local)
       THEN fn_pc' = "blocked" /\ UNCHANGED fn_local
       ELSE /\ fn_pc' = "returned"
            /\ fn_local' = [Logf(fn_local, "ended") EXCEPT !.file = "nil", !.mutex = "free"]
    /\ UNCHANGED <<fn_call, fn_ret, fnOthers>>

NextLog == CallInitLogger \/ CallLogf \/ CloseLoggerBegins \/ CloseLoggerLogs

SpecLog == InitLog /\ [][NextLog]_vars

\* the goroutine is parked in Lock on a mutex only its own deferred Unlock frees
ParkedForever == fn_pc = "blocked" /\ fn_local.mutex = "held"

\* C36: CloseLogger returns: with the log file open it writes the end marker,
\* closes the file and returns, never parked on the logger mutex; with logging
\* off it does nothing.
C36_CloseLoggerReturns ==
    fn_pc \in {"closing", "blocked", "returned"} /\ fn_call \in [debugLog : BOOLEAN, openFails : BOOLEAN] =>
        /\ ~ParkedForever
        /\ fn_pc = "returned" =>
              /\ fn_local.file = "nil" /\ fn_local.mutex = "free"
              /\ IF fn_call.debugLog /\ ~fn_call.openFails
                 THEN fn_local.written[Len(fn_local.written)] = "ended"
                 ELSE fn_local.written = <<>>

\* ------------------------------------------- the two loops on the same turns
\* A turn of the model is text plus complete tool calls.  The server sends it
\* as one JSON response to ChatWithTools and as a stream to
\* ChatWithToolsStream: the text, one fragment per call with its position as
\* index, and a last delta with the finish reason.  A script is the turns the
\* model gives in order, the turn it gives ever after, and whether the
\* executor succeeds.

\* turns in a script before the model repeats itself
MaxTurns == 2

Turn(text, tcs) == [text |-> text, calls |-> tcs]
TurnCall(id, args) == [id |-> id, name |-> "read_file", args |-> args]

TurnCalls == {TurnCall("c1", ArgsGood), TurnCall("c2", ArgsGood), TurnCall("c1", ArgsBad)}
\* no call, one call or two
TurnCallLists == {<<>>} \cup { <<a>> : a \in TurnCalls } \cup { <<a, b>> : a, b \in TurnCalls }
Turns == { Turn(text, tcs) : text \in {<<>>, <<"a", "b">>}, tcs \in TurnCallLists }
RestTurns == { Turn(<<"a", "b">>, <<>>), Turn(<<>>, <<TurnCall("c1", ArgsGood)>>) }

Script(turns, rest, ok) == [turns |-> turns, rest |-> rest, ok |-> ok]
TurnAt(script, n) == IF n <= Len(script.turns) THEN script.turns[n] ELSE script.rest

EncodeResponse(t) ==
    Response("", <<AssistantMessage(t.text,
                     [i \in 1..Len(t.calls) |->
                         Call(i - 1, t.calls[i].id, t.calls[i].name, t.calls[i].args)])>>)

EncodeStream(t) ==
    Stream("200",
           (IF t.text = <<>> THEN <<>> ELSE <<TextDelta(t.text, "")>>)
           \o [i \in 1..Len(t.calls) |->
                 FragsDelta(<<Frag(i - 1, t.calls[i].id, t.calls[i].name, t.calls[i].args)>>, "")]
           \o <<FragsDelta(<<>>, IF t.calls = <<>> THEN "stop" ELSE "tool_calls")>>,
           "done")

\* a run of a loop: the executor's invocations, the message list, what it returned
LoopRun(execs, msgs, done, res) ==
    [execs |-> execs, messages |-> msgs, done |-> done, result |-> res]
LoopStart == LoopRun(<<>>, <<SystemMessage, UserMessage>>, FALSE, NoResult)

\* what the loop gets for a turn: (text, calls, err)
ReplyOf(v, t) ==
    IF v = "stream" THEN chatCompletionStream(EncodeStream(t))
    ELSE chatCompletion(EncodeResponse(t))

\* the assistant message the loop appends
AssistantOf(v, t, r) ==
    IF v = "stream" THEN AssistantMessage(r.text, r.calls)
    ELSE EncodeResponse(t).choices[1]

\* "for _, toolCall := range toolCalls" of either loop
RECURSIVE RunCalls(_, _, _)
RunCalls(run, tcs, ok) ==
    IF tcs = <<>> THEN run
    ELSE IF ~IsJSONObject(Head(tcs).Arguments)
    THEN [run EXCEPT !.done = TRUE, !.result = ParseFailure(Head(tcs))]
    ELSE RunCalls([run EXCEPT
                      !.execs = Append(@, Head(tcs)),
                      !.messages = Append(@, ToolMessage(Head(tcs),
                                       ToolResult(ExecuteTool(Head(tcs).Name, ok))))],
                  Tail(tcs), ok)

\* "for iteration < maxIterations" of either loop, from model call n on
RECURSIVE RunLoop(_, _, _, _, _)
RECURSIVE AfterTurn(_, _, _, _, _, _, _)
AfterTurn(v, script, r, msg, run, it, n) ==
    IF r.err # "" THEN [run EXCEPT !.done = TRUE, !.result = LoopResult(<<>>, r.err, <<>>)]
    ELSE IF Len(r.calls) > 0
    THEN RunLoop(v, script,
                 RunCalls([run EXCEPT !.messages = Append(@, msg)], r.calls, script.ok),
                 it + 1, n + 1)
    ELSE [run EXCEPT !.done = TRUE, !.messages = Append(@, msg),
                     !.result = LoopResult(r.text, "", <<>>)]

RunLoop(v, script, run, it, n) ==
    IF run.done THEN run
    ELSE IF ~LoopContinues(it)
    THEN [run EXCEPT !.done = TRUE, !.result = LoopResult(<<>>, "max_iterations", <<>>)]
    ELSE AfterTurn(v, script, ReplyOf(v, TurnAt(script, n)),
                   AssistantOf(v, TurnAt(script, n), ReplyOf(v, TurnAt(script, n))),
                   run, it, n)

ChatWithToolsStream(script) == RunLoop("stream", script, LoopStart, 0, 1)
ChatWithTools(script) == RunLoop("plain", script, LoopStart, 0, 1)

InitBoth ==
    /\ fn_call \in { Script(turns, rest, ok) :
                       turns \in UNION { [1..n -> Turns] : n \in 1..MaxTurns },
                       rest \in RestTurns, ok \in BOOLEAN }
    /\ fn_local = <<>> /\ fn_pc = "call" /\ fn_ret = <<>>
    /\ StreamIdle /\ ScenIdle /\ LoopIdle /\ PathIdle /\ ToolIdle /\ ChatIdle /\ SrvIdle

\* both loops are run on the script
CallBothLoops ==
    /\ fn_pc = "call"
    /\ fn_local' = ChatWithToolsStream(fn_call)
    /\ fn_ret' = ChatWithTools(fn_call)
    /\ fn_pc' = "done"
    /\ UNCHANGED <<fn_call, fnOthers>>

NextBoth == CallBothLoops

SpecBoth == InitBoth /\ [][NextBoth]_vars

BothRan == fn_pc = "done" /\ fn_call \in [turns : Seq(Turns), rest : RestTurns, ok : BOOLEAN]

\* C39: on the same turns and with the same executor the two loops invoke the
\* executor for the same calls in the same order, build the same message
\* list and return the same text or the same error.
C39_LoopsAgree ==
    BothRan =>
        /\ fn_local.execs = fn_ret.execs
        /\ fn_local.messages = fn_ret.messages
        /\ fn_local.result = fn_ret.result

====
